---- MODULE Spec2Model ----
(***************************************************************************)
(* Model of the warehouse robot controller src/latest_controller.py: the   *)
(* control loop (job poll gate, waypoint interpreter, completion           *)
(* reporting), the pick sequencer and the slot inventory; of its           *)
(* per-object variant src/multiple_quantity_picking.py (SpecObj); and of   *)
(* the assignment service src/supervisor_service.py (SpecSvc).  The three  *)
(* are separate processes: each specification runs one of them and leaves  *)
(* the state of the others as it starts.                                   *)
(*                                                                         *)
(* Conventions                                                             *)
(*  - lengths are in millimetres, times in milliseconds, joint positions   *)
(*    in thousandths of the source's unit, so that the source's decimals   *)
(*    are integers;                                                        *)
(*  - a Python value is a record [t, n, s]: t is its type ("int", "float", *)
(*    "str"), n its number, s its string; a waypoint tuple is a sequence   *)
(*    of such values;                                                      *)
(*  - pc is the position of the controller in its code; "crashed" is the   *)
(*    state after an exception no handler caught: the process has ended;   *)
(*  - calls and cmds list the backend requests and the actuator commands   *)
(*    issued since the current loop iteration began;                       *)
(*  - Init is the state in which the control loop is first entered (a      *)
(*    startup request that raises ends the process before the loop), and   *)
(*    the simulator keeps stepping: robot.step never returns -1.           *)
(***************************************************************************)
EXTENDS Integers, Sequences, FiniteSets, TLC

VARIABLES
    pc,                       \* position in the controller's code
    shelves,                  \* shelf name -> sequence of [id, available]
    BATTERY,
    CAN_QUANTITY,
    CURRENT_JOB_ID,
    JOB_IN_PROGRESS,
    waypoints,
    current_waypoint_index,
    rotation_start_time,      \* <<>> is None, <<t>> a time
    is_rotating,
    rotation_direction,       \* "None", "left" or "right"
    current_rotation_duration,
    simTime,                  \* robot.getTime()
    since_last_call,          \* now - last_call, saturating at POLL_INTERVAL
    wheels,                   \* the four wheel velocities
    available_slots,          \* pick_can_quantity's locals, kept until the
    quantity,                 \*   iteration ends: the slot list, the quantity
    pick_i,                   \*   after the clamp, the loop index
    calls,                    \* backend requests of this iteration
    cmds,                     \* actuator commands and waits of this iteration
    call_failed,              \* some backend request of this iteration failed
    branch,                   \* the branch of the loop body taken last
    last_mark,                \* the latest mark_slot_unavailable call
    response_json,            \* the job response the poll of this iteration got
    gps,                      \* the position the movement branch read
    jobs_started,             \* plans installed so far
    jobs_reported,            \* completion reports made so far
    available_robots,         \* the assignment service's state
    orders,
    since_last_check,         \* current_time - last_check, in half seconds,
                              \*   saturating at the check interval
    robots_response,          \* the two fetches of the service's current
    orders_response,          \*   cycle: <<>> before the fetch
    invoked                   \* requests and functions the cycle has invoked

vars == <<pc, shelves, BATTERY, CAN_QUANTITY, CURRENT_JOB_ID, JOB_IN_PROGRESS,
          waypoints, current_waypoint_index, rotation_start_time, is_rotating,
          rotation_direction, current_rotation_duration, simTime,
          since_last_call, wheels, available_slots, quantity, pick_i, calls,
          cmds, call_failed, branch, last_mark, response_json, gps,
          jobs_started, jobs_reported, available_robots, orders,
          since_last_check, robots_response, orders_response, invoked>>

\* the state of the assignment service
svcVars == <<available_robots, orders, since_last_check, robots_response,
             orders_response, invoked>>

----------------------------------------------------------------------------
(* Bounds of the model *)

\* jobs the backend hands out during a run
MaxJobs == 2
\* job identifiers are 1..MaxJobId
MaxJobId == 1
\* milliseconds of simulated time per robot.step
StepMs == 1000

(* Program constants *)

\* pick_can_from_slot's slot_id is 1, 2, 3 or 4
SLOT_COUNT == 4
ROTATING_SPEED == 8
SPEED == 5
POLL_INTERVAL == 10
BATTERY_DECREMENT == 5
BATTERY_COUNT_SENT == 5
TOLERANCE == 100
NO_JOB == 0

----------------------------------------------------------------------------
(* Python values *)

I(x) == [t |-> "int", n |-> x, s |-> ""]
F(x) == [t |-> "float", n |-> x, s |-> ""]
S(x) == [t |-> "str", n |-> 0, s |-> x]

\* isinstance(v, int)
IsInt(v) == v.t = "int"
\* a value the format specs ".1f" and ".2f" and arithmetic accept
IsNumber(v) == v.t \in {"int", "float"}
\* s.startswith("turn_"), over the strings the model uses
StartsWithTurn(s) == s \in {"turn_left", "turn_right", "turn_around"}

None == <<>>

Min(a, b) == IF a < b THEN a ELSE b

----------------------------------------------------------------------------
(* Inputs *)

SlotIds == 1..SLOT_COUNT
JobIds == 1..MaxJobId

\* what the backend may hold for the robot's battery level at startup
BatteryLevels == {0, 100}

\* job_items[0]["quantity"] as the backend may send it
Quantities == {I(-1), I(0), I(1), I(2), I(3), S("2")}

\* outcomes of a request whose caller wraps it in try/except:
\* success flag true, success flag false, or an exception
\* (network error, body that is not JSON, missing key)
Responses == {"ok", "unsuccessful", "error"}

\* outcomes of the update-slot-availability request
\*   ok           {"success": true}
\*   unsuccessful {"success": false} or no such key
\*   neterror     requests.patch raises
\*   badbody      response.json() raises
\*   notdict      the body is JSON but not an object: .get raises
SlotResponses == {"ok", "unsuccessful", "neterror", "badbody", "notdict"}

\* outcomes of the get-assigned-job request
\*   error        the request, json() or a key lookup before _id raises
\*   unsuccessful success flag false
\*   empty        success, len(data) = 0
\*   no_items     success, data has _id but no usable items (KeyError)
\*   not_can      success, items is not exactly one "Can" entry
\*   job          success, one "Can" item with a quantity

\* wall-clock seconds that may pass between two loop iterations
WallAdvances == {0, 5}

\* gps readings: the plan's targets, and two points 99 mm and 100 mm away
\* from the first target
Positions == {<<1680, -3060>>, <<1930, -590>>, <<1830, -3200>>,
              <<700, -3060>>, <<3019, -3060>>,
              <<1680, -2961>>, <<1680, -2960>>}

----------------------------------------------------------------------------
(* State after the module-level initialisation (lines 17-82, 526) *)

\* the slot lists the get-shelves response may carry for can_shelf
SlotLists ==
    {[i \in SlotIds |-> [id |-> i, available |-> a[i]]] : a \in [SlotIds -> BOOLEAN]}

\* shelves stays {} when the response is unsuccessful, empty or malformed
ShelfCaches ==
    {<<>>} \cup {[name \in {"can_shelf"} |-> sl] : sl \in SlotLists}

NoMark == [slot |-> 0, resp |-> "none", result |-> "none", before |-> FALSE]

\* no poll was made in this iteration
NoResponse == [kind |-> "none", id |-> NO_JOB, q |-> I(0)]

\* the assignment service is another process: its state as its module is
\* loaded (lines 21-22), no cycle begun
SvcNotStarted ==
    /\ available_robots = <<>>
    /\ orders = <<>>
    /\ since_last_check = 0
    /\ robots_response = None
    /\ orders_response = None
    /\ invoked = <<>>

Init ==
    /\ pc = "loop"
    /\ shelves \in ShelfCaches
    /\ BATTERY \in BatteryLevels
    /\ CAN_QUANTITY = I(0)
    /\ CURRENT_JOB_ID = NO_JOB
    /\ JOB_IN_PROGRESS = FALSE
    /\ waypoints = <<>>
    /\ current_waypoint_index = 0
    /\ rotation_start_time = None
    /\ is_rotating = FALSE
    /\ rotation_direction = "None"
    /\ current_rotation_duration = I(0)
    /\ simTime = 0
    /\ since_last_call = 0
    /\ wheels = <<0, 0, 0, 0>>
    /\ available_slots = <<>>
    /\ quantity = 0
    /\ pick_i = 0
    /\ calls = <<>>
    /\ cmds = <<>>
    /\ call_failed = FALSE
    /\ branch = "none"
    /\ last_mark = NoMark
    /\ response_json = NoResponse
    /\ gps = None
    /\ jobs_started = 0
    /\ jobs_reported = 0
    /\ SvcNotStarted

----------------------------------------------------------------------------
(* Records of what the controller sends *)

\* a backend request: endpoint, the payload's text and number, and the
\* controller's battery level and in-progress flag when it was sent
Call(ep, msg, val) ==
    [ep |-> ep, msg |-> msg, val |-> val,
     battery |-> BATTERY, in_progress |-> JOB_IN_PROGRESS]

\* addRobotLog(jobId, batteryPercentage, status, x, y, message): the request
\* is made inside try/except, so no outcome reaches the caller
addRobotLog(batteryPercentage, message) ==
    Call("add-robot-log", message, batteryPercentage)

\* updateJobTime(isStartTime, time, jobId)
updateJobTime(isStartTime, jobId) ==
    Call("update-job-time", IF isStartTime THEN "start" ELSE "end", jobId)

Cmd(dev, pos) == [dev |-> dev, pos |-> pos]

\* w.setVelocity(v) for the four wheels
SetWheels(v) ==
    <<Cmd("wheel1", v[1]), Cmd("wheel2", v[2]), Cmd("wheel3", v[3]), Cmd("wheel4", v[4])>>

rotate_left(speed) == <<-speed, speed, speed, -speed>>
\* rotate_right with the velocities of drive_forward
rotate_right_Forward(speed) == <<speed, speed, speed, speed>>

rotate_right(speed) == <<speed, -speed, -speed, speed>>
drive_forward(speed) == <<speed, speed, speed, speed>>
drive_backward(speed) == <<-speed, -speed, -speed, -speed>>
\* stop that zeroes the first two wheels only
stop_FrontOnly == <<0, 0, wheels[3], wheels[4]>>

stop == <<0, 0, 0, 0>>

\* wait(seconds): the number of robot.step calls until the elapsed simulated
\* time exceeds the duration (the loop steps before it tests)
WaitSteps(ms) == (ms \div StepMs) + 1

----------------------------------------------------------------------------
(* Top of the control loop: robot.step, the clocks and the poll gate *)

pcVars == <<shelves, BATTERY, CAN_QUANTITY, CURRENT_JOB_ID, JOB_IN_PROGRESS,
            waypoints, current_waypoint_index, rotation_start_time,
            is_rotating, rotation_direction, current_rotation_duration,
            wheels, jobs_started, jobs_reported>>

\* the gate without its test of the in-progress flag
PollGate_IgnoresFlag(elapsed) == elapsed >= POLL_INTERVAL

\* the gate of line 533
PollGate(elapsed) == elapsed >= POLL_INTERVAL /\ ~JOB_IN_PROGRESS

\* robot.getTime() is read only as a difference from a recorded start time,
\* so the clock's origin is moved to this step whenever no turn is running
LoopHead ==
    /\ pc = "loop"
    /\ simTime' = IF is_rotating THEN simTime + StepMs ELSE 0
    /\ \E d \in WallAdvances :
         LET elapsed == Min(since_last_call + d, POLL_INTERVAL)
         IN  /\ since_last_call' = elapsed
             /\ pc' = IF PollGate(elapsed) THEN "poll" ELSE "body"
    /\ calls' = <<>>
    /\ cmds' = <<>>
    /\ call_failed' = FALSE
    /\ branch' = "none"
    /\ last_mark' = NoMark
    /\ response_json' = NoResponse
    /\ gps' = None
    /\ available_slots' = <<>>
    /\ quantity' = 0
    /\ pick_i' = 0
    /\ UNCHANGED pcVars
    /\ UNCHANGED svcVars

----------------------------------------------------------------------------
(* check_allocated_job, and last_call = now *)

JobResponses ==
    {[kind |-> k, id |-> NO_JOB, q |-> I(0)] : k \in {"error", "unsuccessful", "empty"}}
    \cup {[kind |-> k, id |-> i, q |-> I(0)] : k \in {"no_items", "not_can"}, i \in JobIds}
    \cup {[kind |-> "job", id |-> i, q |-> q] : i \in JobIds, q \in Quantities}

\* the plan of lines 442-452 with the quantity 1 in its pick_can step
new_waypoints_OneCan(q) ==
    << <<F(1680), F(-3060), S("backward")>>,
       <<S("turn_right"), F(11000)>>,
       <<F(1930), F(-590), S("forward")>>,
       <<S("pick_can"), I(1)>>,
       <<F(1830), F(-3200), S("backward")>>,
       <<S("turn_left"), F(3000)>>,
       <<I(0), I(0), I(1), I(0), S("rotation")>>,
       <<F(700), F(-3060), S("backward")>>,
       <<F(3019), F(-3060), S("forward")>> >>

\* lines 442-452: new_waypoints, the plan built for the quantity q
new_waypoints(q) ==
    << <<F(1680), F(-3060), S("backward")>>,
       <<S("turn_right"), F(11000)>>,
       <<F(1930), F(-590), S("forward")>>,
       <<S("pick_can"), q>>,
       <<F(1830), F(-3200), S("backward")>>,
       <<S("turn_left"), F(3000)>>,
       <<I(0), I(0), I(1), I(0), S("rotation")>>,
       <<F(700), F(-3060), S("backward")>>,
       <<F(3019), F(-3060), S("forward")>> >>

\* the timer reset only by a poll that starts a job
ElapsedAfterPoll_OnlyOnJob(elapsed, kind) == IF kind = "job" THEN 0 ELSE elapsed

\* line 540: last_call = now, whatever check_allocated_job did; the value is
\* now - last_call after the assignment
ElapsedAfterPoll(elapsed, kind) == 0

check_allocated_job ==
    /\ pc = "poll"
    /\ \E resp \in JobResponses, r1 \in Responses, r2 \in Responses :
         /\ resp.kind = "job" => jobs_started < MaxJobs
         /\ response_json' = resp
         /\ since_last_call' = ElapsedAfterPoll(since_last_call, resp.kind)
         /\ CURRENT_JOB_ID' =
              IF resp.kind \in {"no_items", "not_can", "job"} THEN resp.id
              ELSE CURRENT_JOB_ID
         /\ IF resp.kind = "job"
            THEN /\ CAN_QUANTITY' = resp.q
                 /\ JOB_IN_PROGRESS' = TRUE
                 /\ waypoints' = new_waypoints(resp.q)
                 /\ jobs_started' = jobs_started + 1
                 /\ calls' = calls \o
                      << Call("get-assigned-job", "", 0),
                         addRobotLog(BATTERY, "Starting Job"),
                         updateJobTime(TRUE, resp.id) >>
                 /\ call_failed' = (r1 # "ok" \/ r2 # "ok")
            ELSE /\ r1 = "ok" /\ r2 = "ok"
                 /\ calls' = Append(calls, Call("get-assigned-job", "", 0))
                 /\ call_failed' = (resp.kind \in {"error", "unsuccessful", "no_items"})
                 /\ UNCHANGED <<CAN_QUANTITY, JOB_IN_PROGRESS, waypoints, jobs_started>>
    /\ pc' = "body"
    /\ branch' = "none"
    /\ UNCHANGED <<shelves, BATTERY, current_waypoint_index, rotation_start_time,
                   is_rotating, rotation_direction, current_rotation_duration,
                   simTime, wheels, available_slots, quantity, pick_i, cmds,
                   last_mark, gps, jobs_reported>>
    /\ UNCHANGED svcVars

----------------------------------------------------------------------------
(* The loop body: no plan, and the terminal condition (lines 548-574) *)

\* waypoints[current_waypoint_index]
current_waypoint == waypoints[current_waypoint_index + 1]

InPlan == Len(waypoints) > 0 /\ current_waypoint_index < Len(waypoints)

Idle ==
    /\ pc = "body"
    /\ Len(waypoints) = 0
    /\ pc' = "loop"
    /\ branch' = "idle"
    /\ UNCHANGED <<shelves, BATTERY, CAN_QUANTITY, CURRENT_JOB_ID, JOB_IN_PROGRESS,
                   waypoints, current_waypoint_index, rotation_start_time,
                   is_rotating, rotation_direction, current_rotation_duration,
                   simTime, since_last_call, wheels, available_slots, quantity,
                   pick_i, calls, cmds, call_failed, last_mark, response_json,
                   gps, jobs_started, jobs_reported>>
    /\ UNCHANGED svcVars

\* what a completion-reporting step leaves alone
reportFrame == <<shelves, CAN_QUANTITY, JOB_IN_PROGRESS, waypoints,
                 current_waypoint_index, rotation_start_time, is_rotating,
                 rotation_direction, current_rotation_duration, simTime,
                 since_last_call, wheels, available_slots, quantity, pick_i,
                 cmds, branch, last_mark, response_json, gps, jobs_started>>

\* lines 550-555: stop, then the reports only for a job id other than 0
PlanFinished ==
    /\ pc = "body"
    /\ Len(waypoints) > 0
    /\ current_waypoint_index >= Len(waypoints)
    /\ wheels' = stop
    /\ cmds' = cmds \o SetWheels(stop)
    /\ branch' = "complete"
    /\ pc' = IF CURRENT_JOB_ID # NO_JOB THEN "report_time" ELSE "reset"
    /\ UNCHANGED <<shelves, BATTERY, CAN_QUANTITY, CURRENT_JOB_ID, JOB_IN_PROGRESS,
                   waypoints, current_waypoint_index, rotation_start_time,
                   is_rotating, rotation_direction, current_rotation_duration,
                   simTime, since_last_call, available_slots, quantity, pick_i,
                   calls, call_failed, last_mark, response_json, gps,
                   jobs_started, jobs_reported>>
    /\ UNCHANGED svcVars

\* updateJobTime without its try/except: an exception ends the controller
ReportEndTime_Unguarded ==
    /\ pc = "report_time"
    /\ \E r \in Responses :
         /\ call_failed' = (call_failed \/ r # "ok")
         /\ pc' = IF r = "error" THEN "crashed" ELSE "report_log"
    /\ calls' = Append(calls, updateJobTime(FALSE, CURRENT_JOB_ID))
    /\ UNCHANGED <<BATTERY, CURRENT_JOB_ID, jobs_reported>>
    /\ UNCHANGED reportFrame
    /\ UNCHANGED svcVars

\* line 559: updateJobTime(False, timestamp, CURRENT_JOB_ID)
ReportEndTime ==
    /\ pc = "report_time"
    /\ \E r \in Responses :
         call_failed' = (call_failed \/ r # "ok")
    /\ calls' = Append(calls, updateJobTime(FALSE, CURRENT_JOB_ID))
    /\ pc' = "report_log"
    /\ UNCHANGED <<BATTERY, CURRENT_JOB_ID, jobs_reported>>
    /\ UNCHANGED reportFrame
    /\ UNCHANGED svcVars

\* line 560: addRobotLog(CURRENT_JOB_ID, BATTERY, "Free", x, y, "Completed job!")
ReportCompletedLog ==
    /\ pc = "report_log"
    /\ \E r \in Responses :
         call_failed' = (call_failed \/ r # "ok")
    /\ calls' = Append(calls, addRobotLog(BATTERY, "Completed job!"))
    /\ pc' = "report_status"
    /\ UNCHANGED <<BATTERY, CURRENT_JOB_ID, jobs_reported>>
    /\ UNCHANGED reportFrame
    /\ UNCHANGED svcVars

\* line 561: update_job_status("completed", CURRENT_JOB_ID); the id is reset
\* only when the response reports success
update_job_status ==
    /\ pc = "report_status"
    /\ \E r \in Responses :
         /\ call_failed' = (call_failed \/ r # "ok")
         /\ CURRENT_JOB_ID' = IF r = "ok" THEN NO_JOB ELSE CURRENT_JOB_ID
    /\ calls' = Append(calls, Call("update-job-status", "completed", CURRENT_JOB_ID))
    /\ jobs_reported' = jobs_reported + 1
    /\ pc' = "report_avail"
    /\ UNCHANGED BATTERY
    /\ UNCHANGED reportFrame
    /\ UNCHANGED svcVars

\* line 562: update_robot_availability("idle")
update_robot_availability ==
    /\ pc = "report_avail"
    /\ \E r \in Responses :
         call_failed' = (call_failed \/ r # "ok")
    /\ calls' = Append(calls, Call("update-robot-availability", "idle", 0))
    /\ pc' = "report_battery"
    /\ UNCHANGED <<BATTERY, CURRENT_JOB_ID, jobs_reported>>
    /\ UNCHANGED reportFrame
    /\ UNCHANGED svcVars

\* the batteryCount of line 567: update_robot_battery(5)
battery_count == BATTERY_COUNT_SENT

\* lines 566-567 in the other order: the report, then BATTERY -= 5
update_robot_battery_ReportFirst ==
    /\ pc = "report_battery"
    /\ BATTERY' = BATTERY - BATTERY_DECREMENT
    /\ \E r \in Responses :
         call_failed' = (call_failed \/ r # "ok")
    /\ calls' = Append(calls, Call("update-battery-level", "", battery_count))
    /\ pc' = "reset"
    /\ UNCHANGED <<CURRENT_JOB_ID, jobs_reported>>
    /\ UNCHANGED reportFrame
    /\ UNCHANGED svcVars

\* lines 566-567: BATTERY -= 5, then update_robot_battery(5)
update_robot_battery ==
    /\ pc = "report_battery"
    /\ BATTERY' = BATTERY - BATTERY_DECREMENT
    /\ \E r \in Responses :
         call_failed' = (call_failed \/ r # "ok")
    /\ calls' = Append(calls,
                       [Call("update-battery-level", "", battery_count)
                          EXCEPT !.battery = BATTERY - BATTERY_DECREMENT])
    /\ pc' = "reset"
    /\ UNCHANGED <<CURRENT_JOB_ID, jobs_reported>>
    /\ UNCHANGED reportFrame
    /\ UNCHANGED svcVars

\* lines 569-574 without the clearing of the plan and of the cursor
ResetForNextJob_KeepsPlan ==
    /\ pc = "reset"
    /\ JOB_IN_PROGRESS' = FALSE
    /\ pc' = "loop"
    /\ UNCHANGED <<shelves, BATTERY, CAN_QUANTITY, CURRENT_JOB_ID, waypoints,
                   current_waypoint_index, rotation_start_time, is_rotating,
                   rotation_direction, current_rotation_duration, simTime,
                   since_last_call, wheels, available_slots, quantity, pick_i,
                   calls, cmds, call_failed, branch, last_mark, response_json,
                   gps, jobs_started, jobs_reported>>
    /\ UNCHANGED svcVars

\* lines 569-574 without the reset of the cursor
ResetForNextJob_KeepsCursor ==
    /\ pc = "reset"
    /\ waypoints' = <<>>
    /\ JOB_IN_PROGRESS' = FALSE
    /\ pc' = "loop"
    /\ UNCHANGED <<shelves, BATTERY, CAN_QUANTITY, CURRENT_JOB_ID,
                   current_waypoint_index, rotation_start_time, is_rotating,
                   rotation_direction, current_rotation_duration, simTime,
                   since_last_call, wheels, available_slots, quantity, pick_i,
                   calls, cmds, call_failed, branch, last_mark, response_json,
                   gps, jobs_started, jobs_reported>>
    /\ UNCHANGED svcVars

\* lines 569-574
ResetForNextJob ==
    /\ pc = "reset"
    /\ waypoints' = <<>>
    /\ current_waypoint_index' = 0
    /\ JOB_IN_PROGRESS' = FALSE
    /\ pc' = "loop"
    /\ UNCHANGED <<shelves, BATTERY, CAN_QUANTITY, CURRENT_JOB_ID,
                   rotation_start_time, is_rotating, rotation_direction,
                   current_rotation_duration, simTime, since_last_call, wheels,
                   available_slots, quantity, pick_i, calls, cmds, call_failed,
                   branch, last_mark, response_json, gps, jobs_started,
                   jobs_reported>>
    /\ UNCHANGED svcVars

----------------------------------------------------------------------------
(* The loop body: a turn in progress (lines 578-599) *)

rotation_elapsed == simTime - rotation_start_time[1]

\* what a waypoint step that touches neither the job nor the sequencer
\* leaves alone
stepFrame == <<shelves, BATTERY, CAN_QUANTITY, CURRENT_JOB_ID, JOB_IN_PROGRESS,
               waypoints, simTime, since_last_call, available_slots, quantity,
               pick_i, last_mark, response_json, jobs_started, jobs_reported>>

\* the test of line 584 passing one step before the duration has elapsed
RotationCompleted_OneStepEarly ==
    rotation_elapsed + StepMs >= current_rotation_duration.n

\* line 584: rotation_elapsed >= current_rotation_duration
RotationCompleted == rotation_elapsed >= current_rotation_duration.n

Rotating ==
    /\ pc = "body"
    /\ InPlan
    /\ is_rotating
    /\ branch' = "rotating"
    /\ IF RotationCompleted
       THEN IF rotation_direction = "None"
            \* rotation_direction.title() on None raises AttributeError
            THEN /\ pc' = "crashed"
                 /\ UNCHANGED <<wheels, cmds, is_rotating, rotation_start_time,
                                current_waypoint_index>>
            ELSE /\ wheels' = stop
                 /\ cmds' = cmds \o SetWheels(stop)
                 /\ is_rotating' = FALSE
                 /\ rotation_start_time' = None
                 /\ current_waypoint_index' = current_waypoint_index + 1
                 /\ pc' = "loop"
       ELSE /\ wheels' = CASE rotation_direction = "left" -> rotate_left(ROTATING_SPEED)
                           [] rotation_direction = "right" -> rotate_right(ROTATING_SPEED)
                           [] OTHER -> wheels
            /\ cmds' = CASE rotation_direction = "left" ->
                              cmds \o SetWheels(rotate_left(ROTATING_SPEED))
                         [] rotation_direction = "right" ->
                              cmds \o SetWheels(rotate_right(ROTATING_SPEED))
                         [] OTHER -> cmds
            /\ pc' = "loop"
            /\ UNCHANGED <<is_rotating, rotation_start_time, current_waypoint_index>>
    /\ UNCHANGED <<rotation_direction, current_rotation_duration, calls,
                   call_failed, gps>>
    /\ UNCHANGED stepFrame
    /\ UNCHANGED svcVars

----------------------------------------------------------------------------
(* The pick sequencer (lines 135-163, 189-395) *)

\* get_available_slots(): the ids of the available slots, in cache order
RECURSIVE AvailableIn(_)
AvailableIn(slots) ==
    IF slots = <<>> THEN <<>>
    ELSE (IF Head(slots).available THEN <<Head(slots).id>> ELSE <<>>)
         \o AvailableIn(Tail(slots))

get_available_slots == AvailableIn(shelves["can_shelf"])

Wait(ms) == <<Cmd("wait", ms)>>
Fingers(pos) == <<Cmd("finger_left", pos), Cmd("finger_right", pos)>>

\* lines 195-204: stop, reset the five arm joints and the two fingers, wait
ResetJoints ==
    SetWheels(stop)
    \o <<Cmd("arm1", 0), Cmd("arm2", 0), Cmd("arm3", 0), Cmd("arm4", 0), Cmd("arm5", 0)>>
    \o Fingers(0) \o Wait(2000)

\* lines 207-245
LowerForSlot2 ==
    Fingers(25) \o Wait(2000)
    \o <<Cmd("arm2", -800)>> \o Wait(1500)
    \o <<Cmd("arm3", 0)>> \o Wait(2500)
    \o <<Cmd("arm4", -820), Cmd("arm4", -1720)>> \o Wait(2500)

\* lines 247-288
LowerForSlot4 ==
    Fingers(25) \o Wait(2000)
    \o <<Cmd("arm4", 1450)>> \o Wait(2500)
    \o <<Cmd("arm3", -1150)>> \o Wait(2500)
    \o <<Cmd("arm2", -920)>> \o Wait(1500)
    \o <<Cmd("arm4", -300), Cmd("arm4", -1320)>> \o Wait(2500)

\* lines 306-361; arm3_drop is <<>> for None
GripAndPlace(arm1_rotate, arm2_drop, arm3_drop, gripper_release, release_wait) ==
    Fingers(0) \o Wait(2500)
    \o <<Cmd("arm2", 750)>> \o Wait(2000)
    \o <<Cmd("arm1", arm1_rotate)>> \o Wait(2000)
    \o <<Cmd("arm2", arm2_drop)>> \o Wait(2000)
    \o (IF arm3_drop # None THEN <<Cmd("arm3", arm3_drop[1])>> \o Wait(2000) ELSE <<>>)
    \o Fingers(gripper_release) \o Wait(release_wait)
    \o <<Cmd("arm2", 900)>> \o Wait(2000)
    \o <<Cmd("arm1", 0)>> \o Wait(2000)
    \o <<Cmd("arm3", 0)>> \o Wait(2000)
    \o <<Cmd("arm4", 0)>> \o Wait(2000)
    \o <<Cmd("arm2", 0)>> \o Wait(2000)
    \o Fingers(20) \o Wait(2000)

\* the slots whose choreography is written
HasChoreography(slot_id) == slot_id \in {2, 4}

\* pick_can_from_slot that returns after the lowering, before the grip
pick_can_from_slot_StopsAfterLowering(slot_id) ==
    ResetJoints
    \o CASE slot_id = 2 -> LowerForSlot2
         [] slot_id = 4 -> LowerForSlot4
         [] OTHER -> <<>>

\* pick_can_from_slot(slot_id): the commands and waits it issues, in order
pick_can_from_slot(slot_id) ==
    ResetJoints
    \o CASE slot_id = 2 ->
              LowerForSlot2 \o GripAndPlace(-2940, -520, <<-840>>, 20, 2000)
         [] slot_id = 4 ->
              LowerForSlot4 \o GripAndPlace(-2940, -320, None, 20, 2000)
         [] OTHER -> <<>>

\* the simulated time a command list takes: its waits, in steps
RECURSIVE WaitTime(_)
WaitTime(cs) ==
    IF cs = <<>> THEN 0
    ELSE (IF Head(cs).dev = "wait" THEN WaitSteps(Head(cs).pos) * StepMs ELSE 0)
         + WaitTime(Tail(cs))

\* the first position of the cache whose slot has this id, 0 when none has
RECURSIVE FirstWithId(_, _, _)
FirstWithId(slots, slot_id, k) ==
    IF k > Len(slots) THEN 0
    ELSE IF slots[k].id = slot_id THEN k
    ELSE FirstWithId(slots, slot_id, k + 1)

\* mark_slot_unavailable that reports success and leaves the cache alone
mark_slot_unavailable_RemoteOnly(slot_id, resp) ==
    CASE resp \in {"neterror", "badbody"} ->
           [shelves |-> shelves, result |-> "raised"]
      [] resp = "ok" ->
           [shelves |-> shelves, result |-> "True"]
      [] OTHER ->
           [shelves |-> shelves, result |-> "False"]

\* mark_slot_unavailable that rebuilds the shelf's slots on success: the
\* slot unavailable, every other slot available
mark_slot_unavailable_FreesOthers(slot_id, resp) ==
    LET slots == shelves["can_shelf"]
    IN  CASE resp \in {"neterror", "badbody"} ->
               [shelves |-> shelves, result |-> "raised"]
          [] resp = "ok" ->
               [shelves |-> [shelves EXCEPT !["can_shelf"] =
                               [j \in 1..Len(slots) |->
                                  [id |-> slots[j].id,
                                   available |-> slots[j].id # slot_id]]],
                result |-> "True"]
          [] OTHER ->
               [shelves |-> shelves, result |-> "False"]

\* mark_slot_unavailable(slot_id) under the response resp: the cache after
\* the call and how the call ends ("True", "False", or "raised" when the
\* exception leaves the function: lines 151-152 are outside the try)
mark_slot_unavailable(slot_id, resp) ==
    LET slots == shelves["can_shelf"]
        k == FirstWithId(slots, slot_id, 1)
    IN  CASE resp \in {"neterror", "badbody"} ->
               [shelves |-> shelves, result |-> "raised"]
          [] resp = "ok" /\ k > 0 ->
               [shelves |-> [shelves EXCEPT !["can_shelf"][k].available = FALSE],
                result |-> "True"]
          [] OTHER ->
               [shelves |-> shelves, result |-> "False"]

\* the test of line 370 with < in place of <=
InvalidQuantity_ZeroAccepted(q) == ~IsInt(q) \/ q.n < 0

\* line 370: the quantity pick_can_quantity refuses
InvalidQuantity(q) == ~IsInt(q) \/ q.n <= 0

\* what the sequencer leaves alone
pickFrame == <<BATTERY, CAN_QUANTITY, CURRENT_JOB_ID, JOB_IN_PROGRESS, waypoints,
               rotation_start_time, is_rotating, rotation_direction,
               current_rotation_duration, since_last_call, response_json, gps,
               jobs_started, jobs_reported>>

\* lines 602-606 and 370-382: the pick_can step up to the clamp
PickStep ==
    /\ pc = "body"
    /\ InPlan
    /\ ~is_rotating
    /\ Len(current_waypoint) >= 2 /\ current_waypoint[1] = S("pick_can")
    /\ branch' = "pick"
    /\ LET q == current_waypoint[2]
       IN  IF InvalidQuantity(q)
           THEN \* "Invalid quantity": pick_can_quantity returns, line 607
                /\ \E r \in Responses : call_failed' = (r # "ok")
                /\ calls' = Append(calls, addRobotLog(BATTERY, "Beginning to pick can"))
                /\ current_waypoint_index' = current_waypoint_index + 1
                /\ pc' = "loop"
                /\ UNCHANGED <<available_slots, quantity, pick_i>>
           ELSE /\ \E r1 \in Responses, r2 \in Responses :
                     call_failed' = (r1 # "ok" \/ r2 # "ok")
                /\ calls' = calls \o
                     << addRobotLog(BATTERY, "Beginning to pick can"),
                        addRobotLog(BATTERY, "Starting pick can sequence") >>
                /\ IF "can_shelf" \in DOMAIN shelves
                   THEN /\ available_slots' = get_available_slots
                        /\ quantity' = Min(q.n, Len(get_available_slots))
                        /\ pick_i' = 0
                        /\ pc' = "pick"
                   ELSE \* shelves["can_shelf"] raises KeyError
                        /\ pc' = "crashed"
                        /\ UNCHANGED <<available_slots, quantity, pick_i>>
                /\ UNCHANGED current_waypoint_index
    /\ UNCHANGED <<shelves, simTime, wheels, cmds, last_mark>>
    /\ UNCHANGED pickFrame
    /\ UNCHANGED svcVars

\* lines 385-390: one iteration of the loop over the clamped quantity
PickIteration ==
    /\ pc = "pick"
    /\ pick_i < quantity /\ pick_i < Len(available_slots)
    /\ LET slot_id == available_slots[pick_i + 1]
           moves == pick_can_from_slot(slot_id)
       IN  /\ cmds' = cmds \o moves
           /\ wheels' = stop
           /\ simTime' = simTime + WaitTime(moves)
           /\ \E resp \in SlotResponses :
                LET m == mark_slot_unavailable(slot_id, resp)
                IN  /\ shelves' = m.shelves
                    /\ last_mark' = [slot |-> slot_id, resp |-> resp,
                                     result |-> m.result,
                                     before |-> \E j \in 1..Len(shelves["can_shelf"]) :
                                        /\ shelves["can_shelf"][j].id = slot_id
                                        /\ shelves["can_shelf"][j].available]
                    /\ call_failed' = (call_failed \/ resp # "ok")
                    /\ pc' = IF m.result = "raised" THEN "crashed" ELSE "pick"
           /\ calls' = Append(calls, Call("update-slot-availability", "", slot_id))
    /\ pick_i' = pick_i + 1
    /\ UNCHANGED <<available_slots, quantity, current_waypoint_index, branch>>
    /\ UNCHANGED pickFrame
    /\ UNCHANGED svcVars

\* lines 394-395 and 607-608
PickDone ==
    /\ pc = "pick"
    /\ ~(pick_i < quantity /\ pick_i < Len(available_slots))
    /\ \E r \in Responses : call_failed' = (call_failed \/ r # "ok")
    /\ calls' = Append(calls, addRobotLog(BATTERY, "Completed picking can operation"))
    /\ current_waypoint_index' = current_waypoint_index + 1
    /\ pc' = "loop"
    /\ UNCHANGED <<shelves, simTime, wheels, cmds, last_mark, branch,
                   available_slots, quantity, pick_i>>
    /\ UNCHANGED pickFrame
    /\ UNCHANGED svcVars

----------------------------------------------------------------------------
(* The loop body: rotation, movement, turn and fallback (lines 610-666) *)

NotPick == ~(Len(current_waypoint) >= 2 /\ current_waypoint[1] = S("pick_can"))
IsRotation == Len(current_waypoint) = 5 /\ current_waypoint[5] = S("rotation")

\* the rotation step kept as the current step until the set succeeds
CursorAfterRotation_RetryOnFailure(success) ==
    IF success THEN current_waypoint_index + 1 ELSE current_waypoint_index

\* the cursor moved past the rotation step and the step after it
CursorAfterRotation_SkipsNext(success) == current_waypoint_index + 2

\* line 620: current_waypoint_index += 1, after either arm of lines 616-619
CursorAfterRotation(success) == current_waypoint_index + 1

\* lines 611-621; set_robot_rotation succeeds when the robot node and its
\* rotation field are accessible
RotationStep ==
    /\ pc = "body"
    /\ InPlan
    /\ ~is_rotating
    /\ NotPick
    /\ IsRotation
    /\ branch' = "rotation"
    /\ IF ~IsNumber(current_waypoint[4])
       \* the format spec .2f of line 613 raises
       THEN /\ pc' = "crashed"
            /\ UNCHANGED <<wheels, cmds, current_waypoint_index>>
       ELSE /\ wheels' = stop
            /\ \E success \in BOOLEAN :
                 /\ cmds' = cmds \o SetWheels(stop)
                            \o (IF success
                                THEN <<Cmd("rotation", current_waypoint[4].n)>>
                                ELSE <<>>)
                 /\ current_waypoint_index' = CursorAfterRotation(success)
            /\ pc' = "loop"
    /\ UNCHANGED <<rotation_start_time, is_rotating, rotation_direction,
                   current_rotation_duration, calls, call_failed, gps>>
    /\ UNCHANGED stepFrame
    /\ UNCHANGED svcVars

\* the distance along x only
calculate_distance2_XOnly(pos1, pos2) ==
    (pos2[1] - pos1[1]) * (pos2[1] - pos1[1])

\* calculate_distance squared: the square root is not taken, the comparison
\* with the tolerance is made on the squares
calculate_distance2(pos1, pos2) ==
    (pos2[1] - pos1[1]) * (pos2[1] - pos1[1]) + (pos2[2] - pos1[2]) * (pos2[2] - pos1[2])

\* lines 624-646
MoveStep ==
    /\ pc = "body"
    /\ InPlan
    /\ ~is_rotating
    /\ NotPick
    /\ ~IsRotation
    /\ Len(current_waypoint) = 3
    /\ branch' = "move"
    /\ LET target_x == current_waypoint[1]
           target_y == current_waypoint[2]
           movement_type == current_waypoint[3]
       IN  IF ~(IsNumber(target_x) /\ IsNumber(target_y))
           \* the subtraction in calculate_distance raises TypeError
           THEN /\ pc' = "crashed"
                /\ UNCHANGED <<wheels, cmds, calls, call_failed,
                               current_waypoint_index, gps>>
           ELSE \E pos \in Positions :
                /\ gps' = pos
                /\ IF calculate_distance2(pos, <<target_x.n, target_y.n>>)
                          < TOLERANCE * TOLERANCE
                     THEN /\ \E r \in Responses : call_failed' = (r # "ok")
                          /\ calls' = Append(calls, addRobotLog(BATTERY, "Reached Waypoint"))
                          /\ current_waypoint_index' = current_waypoint_index + 1
                          /\ wheels' = stop
                          /\ cmds' = cmds \o SetWheels(stop)
                          /\ pc' = "loop"
                     ELSE /\ CASE movement_type = S("forward") ->
                                    /\ wheels' = drive_forward(SPEED)
                                    /\ cmds' = cmds \o SetWheels(drive_forward(SPEED))
                                    /\ UNCHANGED current_waypoint_index
                               [] movement_type = S("backward") ->
                                    /\ wheels' = drive_backward(SPEED)
                                    /\ cmds' = cmds \o SetWheels(drive_backward(SPEED))
                                    /\ UNCHANGED current_waypoint_index
                               [] OTHER ->
                                    /\ wheels' = stop
                                    /\ cmds' = cmds \o SetWheels(stop)
                                    /\ current_waypoint_index' = current_waypoint_index + 1
                          /\ pc' = "loop"
                          /\ UNCHANGED <<calls, call_failed>>
    /\ UNCHANGED <<rotation_start_time, is_rotating, rotation_direction,
                   current_rotation_duration>>
    /\ UNCHANGED stepFrame
    /\ UNCHANGED svcVars

IsTurn ==
    /\ Len(current_waypoint) = 2
    /\ current_waypoint[1].t = "str"
    /\ StartsWithTurn(current_waypoint[1].s)

\* lines 649-666: the turn command, else the fallback
TurnOrFallback ==
    /\ pc = "body"
    /\ InPlan
    /\ ~is_rotating
    /\ NotPick
    /\ ~IsRotation
    /\ Len(current_waypoint) # 3
    /\ IF IsTurn
       THEN LET turn_command == current_waypoint[1].s
                duration == current_waypoint[2]
            IN  /\ branch' = "turn"
                /\ IF ~IsNumber(duration)
                   \* the format spec .1f of line 651 raises
                   THEN /\ pc' = "crashed"
                        /\ UNCHANGED <<wheels, cmds, rotation_direction, is_rotating,
                                       rotation_start_time, current_rotation_duration>>
                   ELSE /\ CASE turn_command = "turn_left" ->
                                  /\ wheels' = rotate_left(ROTATING_SPEED)
                                  /\ cmds' = cmds \o SetWheels(rotate_left(ROTATING_SPEED))
                                  /\ rotation_direction' = "left"
                             [] turn_command = "turn_right" ->
                                  /\ wheels' = rotate_right(ROTATING_SPEED)
                                  /\ cmds' = cmds \o SetWheels(rotate_right(ROTATING_SPEED))
                                  /\ rotation_direction' = "right"
                             [] OTHER ->
                                  UNCHANGED <<wheels, cmds, rotation_direction>>
                        /\ is_rotating' = TRUE
                        /\ rotation_start_time' = <<simTime>>
                        /\ current_rotation_duration' = duration
                        /\ pc' = "loop"
                /\ UNCHANGED current_waypoint_index
       ELSE /\ branch' = "invalid"
            /\ current_waypoint_index' = current_waypoint_index + 1
            /\ pc' = "loop"
            /\ UNCHANGED <<wheels, cmds, rotation_direction, is_rotating,
                           rotation_start_time, current_rotation_duration>>
    /\ UNCHANGED <<calls, call_failed, gps>>
    /\ UNCHANGED stepFrame
    /\ UNCHANGED svcVars

----------------------------------------------------------------------------
(* The controller *)

Next ==
    \/ LoopHead
    \/ check_allocated_job
    \/ Idle
    \/ PlanFinished
    \/ ReportEndTime
    \/ ReportCompletedLog
    \/ update_job_status
    \/ update_robot_availability
    \/ update_robot_battery
    \/ ResetForNextJob
    \/ Rotating
    \/ PickStep
    \/ PickIteration
    \/ PickDone
    \/ RotationStep
    \/ MoveStep
    \/ TurnOrFallback

Spec == Init /\ [][Next]_vars

\* The controller while the simulator keeps stepping: robot.step returns, so
\* the loop and every wait go on, every request returns (with a response
\* or an exception), and at a movement step a position within the
\* tolerance of the target is eventually read.
LiveSpec ==
    /\ Spec
    /\ WF_vars(Next)
    /\ SF_vars(MoveStep /\ current_waypoint_index' = current_waypoint_index + 1)

----------------------------------------------------------------------------
(* The interpreter and the sequencer under other plans and caches.  The     *)
(* plan is a literal of check_allocated_job and the cache is the backend's  *)
(* get-shelves answer: the loop body reads both as data.  SpecAnyPlan       *)
(* starts the loop with a job in progress whose plan holds the step shapes  *)
(* of lines 602-666 that the literal of lines 442-452 does not use, and     *)
(* with a cache whose slots come in the backend's order.                    *)

\* plans: a turn tag that is neither left nor right, after a turn and as
\* the first turn; an unknown movement type; tuples of other lengths; a
\* pick_can step that returns at once, after a movement
Plans ==
    { << <<S("turn_left"), F(3000)>>,
         <<S("turn_around"), F(2000)>>,
         <<F(1680), F(-3060), S("sideways")>>,
         <<S("noop")>> >>,
      << <<S("turn_around"), F(2000)>>,
         <<F(1680), F(-3060), S("forward")>> >>,
      << <<S("pick_can"), I(2)>>,
         <<I(0), I(0), I(1), I(0), S("rotation")>>,
         <<F(1930), F(-590), S("up")>>,
         <<I(1), I(2), I(3), I(4)>> >>,
      << <<F(1680), F(-3060), S("backward")>>,
         <<S("pick_can"), I(0)>>,
         <<S("noop")>>,
         <<S("turn_right"), F(2000)>> >> }

\* the orders in which the get-shelves answer may list the four slots
CacheOrders == {<<1, 2, 3, 4>>, <<4, 2, 1, 3>>}

AnyOrderCaches ==
    {[name \in {"can_shelf"} |->
        [i \in SlotIds |-> [id |-> o[i], available |-> a[i]]]] :
            o \in CacheOrders, a \in [SlotIds -> BOOLEAN]}

InitAnyPlan ==
    /\ pc = "loop"
    /\ shelves \in AnyOrderCaches
    /\ BATTERY \in BatteryLevels
    /\ CAN_QUANTITY = I(2)
    /\ CURRENT_JOB_ID \in JobIds
    /\ JOB_IN_PROGRESS = TRUE
    /\ waypoints \in Plans
    /\ current_waypoint_index = 0
    /\ rotation_start_time = None
    /\ is_rotating = FALSE
    /\ rotation_direction = "None"
    /\ current_rotation_duration = I(0)
    /\ simTime = 0
    /\ since_last_call = 0
    /\ wheels = <<0, 0, 0, 0>>
    /\ available_slots = <<>>
    /\ quantity = 0
    /\ pick_i = 0
    /\ calls = <<>>
    /\ cmds = <<>>
    /\ call_failed = FALSE
    /\ branch = "none"
    /\ last_mark = NoMark
    /\ response_json = NoResponse
    /\ gps = None
    /\ jobs_started = MaxJobs
    /\ jobs_reported = MaxJobs - 1
    /\ SvcNotStarted

SpecAnyPlan == InitAnyPlan /\ [][Next]_vars

----------------------------------------------------------------------------
(* Scenario A: the backend holds slots 2 and 4 as available and the        *)
(* battery at 100, every request of the run succeeds, and every job asks   *)
(* for two cans.                                                            *)

InitScenarioA ==
    /\ Init
    /\ shelves = [name \in {"can_shelf"} |->
                    [i \in SlotIds |-> [id |-> i, available |-> i \in {2, 4}]]]
    /\ BATTERY = 100

\* no request of the step failed, and a poll got no job or a job of two cans
AllCallsSucceed ==
    /\ ~call_failed'
    /\ response_json'.kind \in {"none", "empty", "job"}
    /\ (response_json'.kind = "job" => response_json'.q = I(2))

NextScenarioA ==
    \/ LoopHead /\ AllCallsSucceed
    \/ check_allocated_job /\ AllCallsSucceed
    \/ Idle /\ AllCallsSucceed
    \/ PlanFinished /\ AllCallsSucceed
    \/ ReportEndTime /\ AllCallsSucceed
    \/ ReportCompletedLog /\ AllCallsSucceed
    \/ update_job_status /\ AllCallsSucceed
    \/ update_robot_availability /\ AllCallsSucceed
    \/ update_robot_battery /\ AllCallsSucceed
    \/ ResetForNextJob /\ AllCallsSucceed
    \/ Rotating /\ AllCallsSucceed
    \/ PickStep /\ AllCallsSucceed
    \/ PickIteration /\ AllCallsSucceed
    \/ PickDone /\ AllCallsSucceed
    \/ RotationStep /\ AllCallsSucceed
    \/ MoveStep /\ AllCallsSucceed
    \/ TurnOrFallback /\ AllCallsSucceed

SpecScenarioA == InitScenarioA /\ [][NextScenarioA]_vars

----------------------------------------------------------------------------
(* The per-object controller src/multiple_quantity_picking.py.  It has no   *)
(* backend, job or inventory: its plan is the literal of lines 312-324 and  *)
(* its loop ends with a break.  Its wheel helpers, wait and                 *)
(* calculate_distance (lines 38-71) have the text of the ones above, and    *)
(* its module-level variables their names; the state it does not have is    *)
(* left as the start-up values.  pc is "done" after the break.              *)

\* the quantity of the pick_can step: the literal's 2, and the other values
\* pick_can_quantity tests for
ObjQuantities == {I(-1), I(0), I(1), I(2), I(3), F(2), S("2")}

\* lines 312-324 with the quantity q in the pick_can step
ObjWaypoints(q) ==
    << <<F(1680), F(-3060), S("backward")>>,
       <<S("turn_right"), F(11000)>>,
       <<F(1930), F(-590), S("forward")>>,
       <<S("pick_can"), q>>,
       <<F(1830), F(-3200), S("backward")>>,
       <<S("turn_left"), F(3000)>>,
       <<I(0), I(0), I(1), I(0), S("rotation")>>,
       <<F(700), F(-3060), S("backward")>>,
       <<F(3019), F(-3060), S("forward")>> >>

\* the literal over the quantities, and a plan of the pick commands of
\* lines 366-387 and the fallback of line 446 that the literal does not use
ObjPlans ==
    {ObjWaypoints(q) : q \in ObjQuantities}
    \cup { << <<S("pick_can")>>,
              <<S("pick_biscuit")>>,
              <<S("pick_cereal"), I(1)>>,
              <<S("pick_apple")>>,
              <<S("noop")>> >> }

\* the state of lines 32-36 and 312-324, the wheels at the velocity 0 of
\* line 21
InitObj ==
    /\ pc = "loop"
    /\ shelves = [name \in {} |-> <<>>]
    /\ BATTERY = 100
    /\ CAN_QUANTITY = I(0)
    /\ CURRENT_JOB_ID = NO_JOB
    /\ JOB_IN_PROGRESS = FALSE
    /\ waypoints \in ObjPlans
    /\ current_waypoint_index = 0
    /\ rotation_start_time = None
    /\ is_rotating = FALSE
    /\ rotation_direction = "None"
    /\ current_rotation_duration = I(0)
    /\ simTime = 0
    /\ since_last_call = 0
    /\ wheels = <<0, 0, 0, 0>>
    /\ available_slots = <<>>
    /\ quantity = 0
    /\ pick_i = 0
    /\ calls = <<>>
    /\ cmds = <<>>
    /\ call_failed = FALSE
    /\ branch = "none"
    /\ last_mark = NoMark
    /\ response_json = NoResponse
    /\ gps = None
    /\ jobs_started = 0
    /\ jobs_reported = 0
    /\ SvcNotStarted

\* the state of the other controller, which this one does not have
objAbsent == <<shelves, BATTERY, CAN_QUANTITY, CURRENT_JOB_ID, JOB_IN_PROGRESS,
               since_last_call, available_slots, calls, call_failed, last_mark,
               response_json, jobs_started, jobs_reported>>

\* lines 326-330: robot.step and the position read; the clock's origin is
\* moved to this step whenever no turn is running
ObjLoopHead ==
    /\ pc = "loop"
    /\ simTime' = IF is_rotating THEN simTime + StepMs ELSE 0
    /\ pc' = "body"
    /\ cmds' = <<>>
    /\ branch' = "none"
    /\ \E pos \in Positions : gps' = pos
    /\ quantity' = 0
    /\ pick_i' = 0
    /\ UNCHANGED <<waypoints, current_waypoint_index, rotation_start_time,
                   is_rotating, rotation_direction, current_rotation_duration,
                   wheels>>
    /\ UNCHANGED objAbsent
    /\ UNCHANGED svcVars

\* lines 333-337: stop and break
ObjAllWaypointsReached ==
    /\ pc = "body"
    /\ current_waypoint_index >= Len(waypoints)
    /\ wheels' = stop
    /\ cmds' = cmds \o SetWheels(stop)
    /\ branch' = "complete"
    /\ pc' = "done"
    /\ UNCHANGED <<waypoints, current_waypoint_index, rotation_start_time,
                   is_rotating, rotation_direction, current_rotation_duration,
                   simTime, gps, quantity, pick_i>>
    /\ UNCHANGED objAbsent
    /\ UNCHANGED svcVars

\* lines 342-362
ObjRotating ==
    /\ pc = "body"
    /\ current_waypoint_index < Len(waypoints)
    /\ is_rotating
    /\ branch' = "rotating"
    /\ IF rotation_elapsed >= current_rotation_duration.n
       THEN IF rotation_direction = "None"
            \* rotation_direction.title() on None raises AttributeError
            THEN /\ pc' = "crashed"
                 /\ UNCHANGED <<wheels, cmds, is_rotating, rotation_start_time,
                                current_waypoint_index>>
            ELSE /\ wheels' = stop
                 /\ cmds' = cmds \o SetWheels(stop)
                 /\ is_rotating' = FALSE
                 /\ rotation_start_time' = None
                 /\ current_waypoint_index' = current_waypoint_index + 1
                 /\ pc' = "loop"
       ELSE /\ wheels' = CASE rotation_direction = "left" -> rotate_left(ROTATING_SPEED)
                           [] rotation_direction = "right" -> rotate_right(ROTATING_SPEED)
                           [] OTHER -> wheels
            /\ cmds' = CASE rotation_direction = "left" ->
                              cmds \o SetWheels(rotate_left(ROTATING_SPEED))
                         [] rotation_direction = "right" ->
                              cmds \o SetWheels(rotate_right(ROTATING_SPEED))
                         [] OTHER -> cmds
            /\ pc' = "loop"
            /\ UNCHANGED <<is_rotating, rotation_start_time, current_waypoint_index>>
    /\ UNCHANGED <<waypoints, rotation_direction, current_rotation_duration,
                   simTime, gps, quantity, pick_i>>
    /\ UNCHANGED objAbsent
    /\ UNCHANGED svcVars

\* lines 95-105: stop, reset the five arm joints and the two fingers, wait
ObjResetJoints ==
    SetWheels(stop)
    \o <<Cmd("arm1", 0), Cmd("arm2", 0), Cmd("arm3", 0), Cmd("arm4", 0), Cmd("arm5", 0)>>
    \o Fingers(0) \o Wait(2000)

\* lines 172-192, with the values of lines 110-116
LowerForBiscuit ==
    Fingers(25) \o Wait(2000)
    \o <<Cmd("arm2", -800)>> \o Wait(1500)
    \o <<Cmd("arm3", 0)>> \o Wait(2500)
    \o <<Cmd("arm4", -820), Cmd("arm4", -1720)>> \o Wait(2500)

\* lines 172-175 and 194-222: arm4_during_lower is <<>> for None
LowerForCanOrCereal(gripper_open, arm4_initial, arm2_lower, arm4_during_lower, arm4_final) ==
    Fingers(gripper_open) \o Wait(2000)
    \o <<Cmd("arm4", arm4_initial)>> \o Wait(2500)
    \o <<Cmd("arm3", -1150)>> \o Wait(2500)
    \o <<Cmd("arm2", arm2_lower)>> \o Wait(1500)
    \o (IF arm4_during_lower # None THEN <<Cmd("arm4", arm4_during_lower[1])>> ELSE <<>>)
    \o <<Cmd("arm4", arm4_final)>> \o Wait(2500)

\* lines 224-279; arm3_drop is <<>> for None
ObjGripAndPlace(arm1_rotate, arm2_drop, arm3_drop, gripper_release, release_wait) ==
    Fingers(0) \o Wait(2500)
    \o <<Cmd("arm2", 750)>> \o Wait(2000)
    \o <<Cmd("arm1", arm1_rotate)>> \o Wait(2000)
    \o <<Cmd("arm2", arm2_drop)>> \o Wait(2000)
    \o (IF arm3_drop # None THEN <<Cmd("arm3", arm3_drop[1])>> \o Wait(2000) ELSE <<>>)
    \o Fingers(gripper_release) \o Wait(release_wait)
    \o <<Cmd("arm2", 900)>> \o Wait(2000)
    \o <<Cmd("arm1", 0)>> \o Wait(2000)
    \o <<Cmd("arm3", 0)>> \o Wait(2000)
    \o <<Cmd("arm4", 0)>> \o Wait(2000)
    \o <<Cmd("arm2", 0)>> \o Wait(2000)
    \o Fingers(20) \o Wait(2000)

\* pick_and_place(target_object): the commands and waits it issues, in
\* order; another target returns after the reset (lines 167-169)
pick_and_place(target_object) ==
    ObjResetJoints
    \o CASE target_object = "BISCUIT" ->
              LowerForBiscuit \o ObjGripAndPlace(-2940, -520, <<-840>>, 20, 2000)
         [] target_object = "CAN" ->
              LowerForCanOrCereal(25, 1450, -920, <<-300>>, -1320)
              \o ObjGripAndPlace(-2940, -320, None, 20, 2000)
         [] target_object = "CEREAL" ->
              LowerForCanOrCereal(25, 1450, -1630, None, -1700)
              \o ObjGripAndPlace(-3040, -80, None, 25, 3000)
         [] OTHER -> <<>>

\* the routine of every can the CAN routine
RoutineForCan_AlwaysCan(i) == "CAN"

\* lines 297-302: the routine of can number i, counted from 1
RoutineForCan(i) == IF i = 1 THEN "BISCUIT" ELSE "CAN"

\* s.startswith("pick_"), over the strings the model uses
StartsWithPick(s) == s \in {"pick_can", "pick_biscuit", "pick_cereal", "pick_apple"}

\* line 383: command.replace("pick_", "").upper()
ObjectType(command) ==
    CASE command = "pick_can" -> "CAN"
      [] command = "pick_biscuit" -> "BISCUIT"
      [] command = "pick_cereal" -> "CEREAL"
      [] command = "pick_apple" -> "APPLE"

\* line 366 and the tests of lines 370 and 382
IsPickCommand ==
    /\ Len(current_waypoint) >= 1
    /\ current_waypoint[1].t = "str"
    /\ StartsWithPick(current_waypoint[1].s)

\* what a step of the per-object loop body leaves alone
objFrame == <<waypoints, simTime, gps, quantity, pick_i>>

\* lines 370-379 and 289-293: the pick_can command up to the first can
ObjPickCan ==
    /\ pc = "body"
    /\ current_waypoint_index < Len(waypoints)
    /\ ~is_rotating
    /\ IsPickCommand
    /\ current_waypoint[1].s = "pick_can"
    /\ branch' = "pick_can"
    /\ IF Len(current_waypoint) >= 2
          /\ IsInt(current_waypoint[2]) /\ current_waypoint[2].n > 0
       THEN /\ quantity' = current_waypoint[2].n
            /\ pick_i' = 0
            /\ pc' = "objpick"
            /\ UNCHANGED current_waypoint_index
       ELSE \* the quantity is missing (line 377) or refused (lines 289-291)
            /\ current_waypoint_index' = current_waypoint_index + 1
            /\ pc' = "loop"
            /\ UNCHANGED <<quantity, pick_i>>
    /\ UNCHANGED <<waypoints, simTime, gps, wheels, cmds, rotation_start_time,
                   is_rotating, rotation_direction, current_rotation_duration>>
    /\ UNCHANGED objAbsent
    /\ UNCHANGED svcVars

\* lines 297 and 300-302: the pick_and_place call of one can; pick_i is the
\* number of cans done
ObjPickOneCan ==
    /\ pc = "objpick"
    /\ pick_i < quantity
    /\ LET moves == pick_and_place(RoutineForCan(pick_i + 1))
       IN  /\ cmds' = cmds \o moves
           /\ wheels' = stop
           /\ simTime' = simTime + WaitTime(moves)
    /\ pick_i' = pick_i + 1
    /\ UNCHANGED <<pc, waypoints, current_waypoint_index, gps, quantity, branch,
                   rotation_start_time, is_rotating, rotation_direction,
                   current_rotation_duration>>
    /\ UNCHANGED objAbsent
    /\ UNCHANGED svcVars

\* lines 304 and 378-379
ObjPickCanDone ==
    /\ pc = "objpick"
    /\ ~(pick_i < quantity)
    /\ current_waypoint_index' = current_waypoint_index + 1
    /\ pc' = "loop"
    /\ UNCHANGED <<waypoints, simTime, gps, quantity, pick_i, wheels, cmds, branch,
                   rotation_start_time, is_rotating, rotation_direction,
                   current_rotation_duration>>
    /\ UNCHANGED objAbsent
    /\ UNCHANGED svcVars

\* lines 382-387: a pick command other than pick_can
ObjPickObject ==
    /\ pc = "body"
    /\ current_waypoint_index < Len(waypoints)
    /\ ~is_rotating
    /\ IsPickCommand
    /\ current_waypoint[1].s # "pick_can"
    /\ branch' = "pick_object"
    /\ LET moves == pick_and_place(ObjectType(current_waypoint[1].s))
       IN  /\ cmds' = cmds \o moves
           /\ wheels' = stop
           /\ simTime' = simTime + WaitTime(moves)
    /\ current_waypoint_index' = current_waypoint_index + 1
    /\ pc' = "loop"
    /\ UNCHANGED <<waypoints, gps, quantity, pick_i, rotation_start_time,
                   is_rotating, rotation_direction, current_rotation_duration>>
    /\ UNCHANGED objAbsent
    /\ UNCHANGED svcVars

\* lines 390-400
ObjRotationStep ==
    /\ pc = "body"
    /\ current_waypoint_index < Len(waypoints)
    /\ ~is_rotating
    /\ ~IsPickCommand
    /\ IsRotation
    /\ branch' = "rotation"
    /\ IF ~IsNumber(current_waypoint[4])
       \* the format spec .2f of line 392 raises
       THEN /\ pc' = "crashed"
            /\ UNCHANGED <<wheels, cmds, current_waypoint_index>>
       ELSE /\ wheels' = stop
            /\ \E success \in BOOLEAN :
                 cmds' = cmds \o SetWheels(stop)
                         \o (IF success
                             THEN <<Cmd("rotation", current_waypoint[4].n)>>
                             ELSE <<>>)
            /\ current_waypoint_index' = current_waypoint_index + 1
            /\ pc' = "loop"
    /\ UNCHANGED <<rotation_start_time, is_rotating, rotation_direction,
                   current_rotation_duration>>
    /\ UNCHANGED objFrame
    /\ UNCHANGED objAbsent
    /\ UNCHANGED svcVars

\* lines 403-425, with the position read at line 328
ObjMoveStep ==
    /\ pc = "body"
    /\ current_waypoint_index < Len(waypoints)
    /\ ~is_rotating
    /\ ~IsPickCommand
    /\ ~IsRotation
    /\ Len(current_waypoint) = 3
    /\ branch' = "move"
    /\ LET target_x == current_waypoint[1]
           target_y == current_waypoint[2]
           movement_type == current_waypoint[3]
       IN  IF ~(IsNumber(target_x) /\ IsNumber(target_y))
           \* the subtraction in calculate_distance raises TypeError
           THEN /\ pc' = "crashed"
                /\ UNCHANGED <<wheels, cmds, current_waypoint_index>>
           ELSE /\ IF calculate_distance2(gps, <<target_x.n, target_y.n>>)
                        < TOLERANCE * TOLERANCE
                   THEN /\ current_waypoint_index' = current_waypoint_index + 1
                        /\ wheels' = stop
                        /\ cmds' = cmds \o SetWheels(stop)
                   ELSE CASE movement_type = S("forward") ->
                               /\ wheels' = drive_forward(SPEED)
                               /\ cmds' = cmds \o SetWheels(drive_forward(SPEED))
                               /\ UNCHANGED current_waypoint_index
                          [] movement_type = S("backward") ->
                               /\ wheels' = drive_backward(SPEED)
                               /\ cmds' = cmds \o SetWheels(drive_backward(SPEED))
                               /\ UNCHANGED current_waypoint_index
                          [] OTHER ->
                               /\ wheels' = stop
                               /\ cmds' = cmds \o SetWheels(stop)
                               /\ current_waypoint_index' = current_waypoint_index + 1
                /\ pc' = "loop"
    /\ UNCHANGED <<rotation_start_time, is_rotating, rotation_direction,
                   current_rotation_duration>>
    /\ UNCHANGED objFrame
    /\ UNCHANGED objAbsent
    /\ UNCHANGED svcVars

\* lines 428-446: the turn command, else the fallback
ObjTurnOrFallback ==
    /\ pc = "body"
    /\ current_waypoint_index < Len(waypoints)
    /\ ~is_rotating
    /\ ~IsPickCommand
    /\ ~IsRotation
    /\ Len(current_waypoint) # 3
    /\ IF IsTurn
       THEN LET turn_command == current_waypoint[1].s
                duration == current_waypoint[2]
            IN  /\ branch' = "turn"
                /\ IF ~IsNumber(duration)
                   \* the format spec .1f of line 430 raises
                   THEN /\ pc' = "crashed"
                        /\ UNCHANGED <<wheels, cmds, rotation_direction, is_rotating,
                                       rotation_start_time, current_rotation_duration>>
                   ELSE /\ CASE turn_command = "turn_left" ->
                                  /\ wheels' = rotate_left(ROTATING_SPEED)
                                  /\ cmds' = cmds \o SetWheels(rotate_left(ROTATING_SPEED))
                                  /\ rotation_direction' = "left"
                             [] turn_command = "turn_right" ->
                                  /\ wheels' = rotate_right(ROTATING_SPEED)
                                  /\ cmds' = cmds \o SetWheels(rotate_right(ROTATING_SPEED))
                                  /\ rotation_direction' = "right"
                             [] OTHER ->
                                  UNCHANGED <<wheels, cmds, rotation_direction>>
                        /\ is_rotating' = TRUE
                        /\ rotation_start_time' = <<simTime>>
                        /\ current_rotation_duration' = duration
                        /\ pc' = "loop"
                /\ UNCHANGED current_waypoint_index
       ELSE /\ branch' = "invalid"
            /\ current_waypoint_index' = current_waypoint_index + 1
            /\ pc' = "loop"
            /\ UNCHANGED <<wheels, cmds, rotation_direction, is_rotating,
                           rotation_start_time, current_rotation_duration>>
    /\ UNCHANGED objFrame
    /\ UNCHANGED objAbsent
    /\ UNCHANGED svcVars

NextObj ==
    \/ ObjLoopHead
    \/ ObjAllWaypointsReached
    \/ ObjRotating
    \/ ObjPickCan
    \/ ObjPickOneCan
    \/ ObjPickCanDone
    \/ ObjPickObject
    \/ ObjRotationStep
    \/ ObjMoveStep
    \/ ObjTurnOrFallback

SpecObj == InitObj /\ [][NextObj]_vars

----------------------------------------------------------------------------
(* The assignment service src/supervisor_service.py: main's loop (lines     *)
(* 74-101) and process_orders_and_jobs (lines 30-72).  job_dispatcher and   *)
(* assign_jobs are imported from utils.algorithm: the service only calls    *)
(* them, and a call either returns or raises.  is_running is never          *)
(* cleared and no KeyboardInterrupt arrives.  Times are in half seconds,    *)
(* the sleep of line 96.                                                    *)

\* orders and robots the backend lists in one answer
MaxOrders == 2
MaxRobots == 2

\* line 18, in seconds
CHECK_INTERVAL == 15

\* half seconds that pass in one iteration of main's loop: the sleep of
\* line 96 alone, or with a cycle of fetches and calls before it, or a
\* pause of the process
SvcAdvances == {1, 11, 2 * CHECK_INTERVAL}

\* the "data" of an answer: a list of 0..n entries
DataLists(n) == {[i \in 1..k |-> i] : k \in 0..n}

\* outcomes of a fetch
\*   ok           {"success": true, "data": [...]}
\*   unsuccessful {"success": false}, with or without data
\*   timeout      requests.get raises requests.Timeout
\*   connerror    requests.get raises requests.ConnectionError
\*   badbody      response.json() raises
FetchOutcomes(n) ==
    {[kind |-> k, data |-> d] : k \in {"ok", "unsuccessful"}, d \in DataLists(n)}
    \cup {[kind |-> k, data |-> <<>>] : k \in {"timeout", "connerror", "badbody"}}

\* the state of the two controllers, which the service does not have
ctlVars == <<shelves, BATTERY, CAN_QUANTITY, CURRENT_JOB_ID, JOB_IN_PROGRESS,
             waypoints, current_waypoint_index, rotation_start_time, is_rotating,
             rotation_direction, current_rotation_duration, simTime,
             since_last_call, wheels, available_slots, quantity, pick_i, calls,
             cmds, call_failed, branch, last_mark, response_json, gps,
             jobs_started, jobs_reported>>

\* lines 20-22 and 80: the lists empty, last_check = time.time()
InitSvc ==
    /\ pc = "svc_loop"
    /\ shelves = [name \in {} |-> <<>>]
    /\ BATTERY = 100
    /\ CAN_QUANTITY = I(0)
    /\ CURRENT_JOB_ID = NO_JOB
    /\ JOB_IN_PROGRESS = FALSE
    /\ waypoints = <<>>
    /\ current_waypoint_index = 0
    /\ rotation_start_time = None
    /\ is_rotating = FALSE
    /\ rotation_direction = "None"
    /\ current_rotation_duration = I(0)
    /\ simTime = 0
    /\ since_last_call = 0
    /\ wheels = <<0, 0, 0, 0>>
    /\ available_slots = <<>>
    /\ quantity = 0
    /\ pick_i = 0
    /\ calls = <<>>
    /\ cmds = <<>>
    /\ call_failed = FALSE
    /\ branch = "none"
    /\ last_mark = NoMark
    /\ response_json = NoResponse
    /\ gps = None
    /\ jobs_started = 0
    /\ jobs_reported = 0
    /\ SvcNotStarted

\* the test of line 49 with "or" in place of "and"
FetchesSucceeded_EitherOne(robots_json, orders_json) ==
    robots_json.kind = "ok" \/ orders_json.kind = "ok"

\* line 49: robots_json["success"] and orders_json["success"]
FetchesSucceeded(robots_json, orders_json) ==
    robots_json.kind = "ok" /\ orders_json.kind = "ok"

\* lines 84-88 and 96, the interval not yet passed: the iteration only sleeps
SvcSleep ==
    /\ pc = "svc_loop"
    /\ since_last_check < 2 * CHECK_INTERVAL
    /\ \E d \in SvcAdvances :
         since_last_check' = Min(since_last_check + d, 2 * CHECK_INTERVAL)
    /\ UNCHANGED <<pc, available_robots, orders, robots_response,
                   orders_response, invoked>>
    /\ UNCHANGED ctlVars

\* lines 84-90: the interval has passed, process_orders_and_jobs is called
SvcStartCycle ==
    /\ pc = "svc_loop"
    /\ since_last_check >= 2 * CHECK_INTERVAL
    /\ pc' = "svc_robots"
    /\ robots_response' = None
    /\ orders_response' = None
    /\ invoked' = <<>>
    /\ UNCHANGED <<available_robots, orders, since_last_check>>
    /\ UNCHANGED ctlVars

\* lines 37-40
SvcFetchRobots ==
    /\ pc = "svc_robots"
    /\ invoked' = Append(invoked, "get-available-robots")
    /\ \E r \in FetchOutcomes(MaxRobots) :
         /\ robots_response' = r
         /\ pc' = IF r.kind \in {"timeout", "connerror"}
                  THEN "svc_end" ELSE "svc_orders"
    /\ UNCHANGED <<available_robots, orders, since_last_check, orders_response>>
    /\ UNCHANGED ctlVars

\* lines 41-44
SvcFetchOrders ==
    /\ pc = "svc_orders"
    /\ invoked' = Append(invoked, "get-pending-orders")
    /\ \E r \in FetchOutcomes(MaxOrders) :
         /\ orders_response' = r
         /\ pc' = IF r.kind \in {"timeout", "connerror"}
                  THEN "svc_end" ELSE "svc_parse"
    /\ UNCHANGED <<available_robots, orders, since_last_check, robots_response>>
    /\ UNCHANGED ctlVars

\* lines 46-52 and 64-65: the two json() calls, the test of the success
\* flags and the assignments of the lists
SvcParse ==
    /\ pc = "svc_parse"
    /\ IF orders_response.kind = "badbody" \/ robots_response.kind = "badbody"
       THEN \* json() raises: the handler of line 71
            /\ pc' = "svc_end"
            /\ UNCHANGED <<orders, available_robots>>
       ELSE IF FetchesSucceeded(robots_response, orders_response)
            THEN /\ orders' = orders_response.data
                 /\ available_robots' = robots_response.data
                 /\ pc' = "svc_dispatch"
            ELSE /\ pc' = "svc_end"
                 /\ UNCHANGED <<orders, available_robots>>
    /\ UNCHANGED <<since_last_check, robots_response, orders_response, invoked>>
    /\ UNCHANGED ctlVars

\* lines 55-58
SvcDispatch ==
    /\ pc = "svc_dispatch"
    /\ IF Len(orders) > 0
       THEN /\ invoked' = Append(invoked, "job_dispatcher")
            /\ \E returns \in BOOLEAN :
                 IF returns
                 THEN /\ orders' = <<>>
                      /\ pc' = "svc_assign"
                 ELSE \* the handler of line 71
                      /\ pc' = "svc_end"
                      /\ UNCHANGED orders
       ELSE /\ pc' = "svc_assign"
            /\ UNCHANGED <<invoked, orders>>
    /\ UNCHANGED <<available_robots, since_last_check, robots_response,
                   orders_response>>
    /\ UNCHANGED ctlVars

\* lines 61-63
SvcAssign ==
    /\ pc = "svc_assign"
    /\ IF Len(available_robots) > 0
       THEN /\ invoked' = Append(invoked, "assign_jobs")
            /\ \E returns \in BOOLEAN :
                 IF returns
                 THEN available_robots' = <<>>
                 ELSE UNCHANGED available_robots
       ELSE UNCHANGED <<invoked, available_robots>>
    /\ pc' = "svc_end"
    /\ UNCHANGED <<orders, since_last_check, robots_response, orders_response>>
    /\ UNCHANGED ctlVars

\* lines 91-96: last_check = current_time, the time read before the cycle,
\* then the sleep
SvcEndCycle ==
    /\ pc = "svc_end"
    /\ pc' = "svc_loop"
    /\ \E d \in SvcAdvances : since_last_check' = Min(d, 2 * CHECK_INTERVAL)
    /\ UNCHANGED <<available_robots, orders, robots_response, orders_response,
                   invoked>>
    /\ UNCHANGED ctlVars

NextSvc ==
    \/ SvcSleep
    \/ SvcStartCycle
    \/ SvcFetchRobots
    \/ SvcFetchOrders
    \/ SvcParse
    \/ SvcDispatch
    \/ SvcAssign
    \/ SvcEndCycle

SpecSvc == InitSvc /\ [][NextSvc]_vars

----------------------------------------------------------------------------
(* Properties *)

\* the availability of a slot in the local cache
SlotAvailable(slot_id) ==
    \E j \in 1..Len(shelves["can_shelf"]) :
       /\ shelves["can_shelf"][j].id = slot_id
       /\ shelves["can_shelf"][j].available

\* the endpoints of the requests of this iteration, in order
Endpoints == [i \in 1..Len(calls) |-> calls[i].ep]

\* the pick_can quantity of the step the loop body has just run
PickRequested ==
    IF pc = "loop" THEN waypoints[current_waypoint_index][2]
    ELSE current_waypoint[2]

\* C1: the job poll is never entered, and never runs, while JOB_IN_PROGRESS
\* is true; a plan is installed only by the poll, only when no plan is
\* installed and no job is in progress.
C1_PollOnlyWhenNoJob ==
    [][ /\ (pc' = "poll" => ~JOB_IN_PROGRESS' /\ waypoints' = <<>>)
        /\ (pc = "poll" => ~JOB_IN_PROGRESS /\ waypoints = <<>>)
        /\ (waypoints' # waypoints /\ waypoints' # <<>> =>
              pc = "poll" /\ ~JOB_IN_PROGRESS /\ waypoints = <<>>) ]_vars

\* C1 witness: an iteration of a job in progress in which the poll interval
\* has elapsed and the gate let no poll through.
C1_Witness ==
    /\ pc = "body"
    /\ JOB_IN_PROGRESS
    /\ jobs_started = 1
    /\ since_last_call >= POLL_INTERVAL
    /\ calls = <<>>

\* C2: mark_slot_unavailable returns True, with the slot unavailable in the
\* local cache, only when the backend reported success; when the request
\* fails or reports non-success the slot stays available locally and the
\* call returns False.
C2_MarkUnavailableContract ==
    last_mark.resp # "none" =>
        /\ (last_mark.result = "True" =>
              last_mark.resp = "ok" /\ ~SlotAvailable(last_mark.slot))
        /\ (last_mark.resp # "ok" =>
              /\ last_mark.result = "False"
              /\ SlotAvailable(last_mark.slot) = last_mark.before)

\* C3: a backend failure during a pick_can step (slot update that raises or
\* has a malformed body, shelf cache not loaded at startup) never ends the
\* control loop: the step returns to the loop with the cursor advanced.
C3_PickFailureNeverEndsLoop ==
    branch = "pick" =>
        /\ pc # "crashed"
        /\ (pc = "loop" => waypoints[current_waypoint_index][1] = S("pick_can"))

\* C4: pick_can_quantity(q) with q greater than the number n of available
\* slots makes exactly n pick iterations, raises no error, and returns to
\* the loop so that the plan continues.
C4_ShortfallIsClamped ==
    ( /\ branch = "pick"
      /\ pc \in {"loop", "crashed"}
      /\ "can_shelf" \in DOMAIN shelves
      /\ IsInt(PickRequested)
      /\ PickRequested.n > Len(available_slots) ) =>
        /\ pc = "loop"
        /\ pick_i = Len(available_slots)
        /\ Cardinality({i \in 1..Len(calls) :
                          calls[i].ep = "update-slot-availability"})
             = Len(available_slots)

\* a pick_can step is next, outside a turn
AtPickStep ==
    /\ pc = "body"
    /\ InPlan
    /\ ~is_rotating
    /\ Len(current_waypoint) >= 2
    /\ current_waypoint[1] = S("pick_can")

\* C5: a pick_can step whose quantity is 0, negative or not an integer
\* issues no wheel, arm or gripper command, marks no slot, and the cursor
\* advances by one in the same iteration.
C5_InvalidQuantityIsSkipped ==
    [][ ( /\ AtPickStep
          /\ (current_waypoint[2].t # "int" \/ current_waypoint[2].n <= 0) ) =>
            /\ pc' = "loop"
            /\ current_waypoint_index' = current_waypoint_index + 1
            /\ cmds' = <<>>
            /\ wheels' = wheels
            /\ shelves' = shelves
            /\ last_mark' = NoMark
            /\ \A i \in 1..Len(calls') :
                 calls'[i].ep # "update-slot-availability" ]_vars

\* C5 witness: a pick_can step with an invalid quantity has just run.
C5_Witness ==
    /\ pc = "loop"
    /\ branch = "pick"
    /\ (PickRequested.t # "int" \/ PickRequested.n <= 0)
    /\ cmds = <<>>
    /\ current_waypoint_index = 4

ReportPcs == {"report_time", "report_log", "report_status", "report_avail",
              "report_battery"}

CompletionEndpoints ==
    <<"update-job-time", "add-robot-log", "update-job-status",
      "update-robot-availability", "update-battery-level">>

\* C6: the completion of a started job is reported exactly once, in the
\* iteration that finds the cursor at or past the plan's length: never
\* while steps remain, never twice for a job.
C6_CompletionReportedOnce ==
    /\ jobs_reported <= jobs_started
    /\ jobs_started - jobs_reported <= 1
    /\ (~JOB_IN_PROGRESS => jobs_reported = jobs_started)
    /\ (JOB_IN_PROGRESS /\ pc \notin {"report_avail", "report_battery", "reset"} =>
          jobs_reported = jobs_started - 1)
    /\ (pc \in ReportPcs =>
          Len(waypoints) > 0 /\ current_waypoint_index >= Len(waypoints))
    /\ (\A i \in 1..Len(calls) :
          calls[i].ep \in {"update-job-status", "update-robot-availability",
                           "update-battery-level"} =>
            branch = "complete")

\* C6 witness: the second job of a run has been reported, once.
C6_Witness ==
    /\ pc = "loop"
    /\ branch = "complete"
    /\ jobs_started = 2
    /\ jobs_reported = 2

\* C7: whatever the outcome of each completion report, the five are all
\* attempted, the battery is decremented and plan, cursor and in-progress
\* flag are reset; no outcome ends the controller.
C7_ReportsAreBestEffort ==
    /\ (branch = "complete" => pc # "crashed")
    /\ (branch = "complete" /\ pc = "loop" =>
          /\ Endpoints = CompletionEndpoints
          /\ BATTERY = calls[1].battery - BATTERY_DECREMENT
          /\ waypoints = <<>>
          /\ current_waypoint_index = 0
          /\ ~JOB_IN_PROGRESS)

\* C7 witness: a completion in which a report failed (the job status among
\* them: the job id was not reset) has run to its end.
C7_Witness ==
    /\ pc = "loop"
    /\ branch = "complete"
    /\ call_failed
    /\ CURRENT_JOB_ID # NO_JOB
    /\ Len(calls) = 5

\* C8: at completion the order is: end time, "Completed job!" log, job
\* status completed, robot availability idle, local battery decrement,
\* battery report; the in-progress flag is cleared after all of them.
C8_CompletionOrder ==
    branch = "complete" =>
        LET n == Len(calls)
        IN  /\ n <= 5
            /\ Endpoints = SubSeq(CompletionEndpoints, 1, n)
            /\ \A i \in 1..n : calls[i].in_progress
            /\ (n >= 1 => calls[1].msg = "end")
            /\ (n >= 2 => calls[2].msg = "Completed job!")
            /\ (n >= 3 => calls[3].msg = "completed")
            /\ (n >= 4 => calls[4].msg = "idle")
            /\ \A i \in 1..n : i <= 4 => calls[i].battery = calls[1].battery
            /\ (n = 5 => calls[5].battery = calls[1].battery - BATTERY_DECREMENT)
            /\ (n \in 1..4 => BATTERY = calls[1].battery)
            /\ (~JOB_IN_PROGRESS => n = 5)

\* C8 witness: the five reports are made and the flag is not yet cleared.
C8_Witness ==
    /\ pc = "reset"
    /\ branch = "complete"
    /\ Len(calls) = 5
    /\ JOB_IN_PROGRESS

\* C9: the battery value sent to the backend at completion is the local
\* battery level after the decrement.
C9_SentBatteryIsNewLevel ==
    \A i \in 1..Len(calls) :
       calls[i].ep = "update-battery-level" => calls[i].val = calls[i].battery

\* C10: the local battery level is within 0..100 in every state and no
\* step increases it.
C10_BatteryWithinRange ==
    [][ /\ BATTERY \in 0..100
        /\ BATTERY' \in 0..100
        /\ BATTERY' <= BATTERY ]_vars

\* C11: a poll that yields no plan (request or body that raises, success
\* flag false, no job, a job record without usable items) leaves the
\* in-progress flag false, the plan empty, and the current job id and the
\* requested quantity as they were.
C11_FailedPollLeavesState ==
    [][ (pc = "poll" /\ response_json'.kind # "job") =>
          /\ ~JOB_IN_PROGRESS'
          /\ waypoints' = <<>>
          /\ CURRENT_JOB_ID' = CURRENT_JOB_ID
          /\ CAN_QUANTITY' = CAN_QUANTITY ]_vars

\* the positions of the plan's pick_can steps
PickSteps == {k \in 1..Len(waypoints) : waypoints[k][1] = S("pick_can")}

\* C12: a poll that returns a job (one "Can" item with a quantity) sets the
\* in-progress flag, takes the job's id, sends the "Starting Job" log and
\* then the start time for that id, and installs a plan with exactly one
\* pick_can step, whose quantity is the job's.
C12_JobStartsPlan ==
    response_json.kind = "job" =>
        /\ JOB_IN_PROGRESS
        /\ CURRENT_JOB_ID = response_json.id
        /\ CAN_QUANTITY = response_json.q
        /\ Len(calls) >= 3
        /\ calls[2].ep = "add-robot-log" /\ calls[2].msg = "Starting Job"
        /\ calls[3] = [ep |-> "update-job-time", msg |-> "start",
                       val |-> response_json.id, battery |-> BATTERY,
                       in_progress |-> FALSE]
        /\ Cardinality(PickSteps) = 1
        /\ \A k \in PickSteps : waypoints[k] = <<S("pick_can"), response_json.q>>

\* C12 witness: a job of quantity 3 has just been started, although one of
\* the two start reports failed.
C12_Witness ==
    /\ pc = "body"
    /\ response_json.kind = "job"
    /\ response_json.q = I(3)
    /\ call_failed
    /\ current_waypoint_index = 0

AtMoveStep ==
    /\ pc = "body"
    /\ InPlan
    /\ ~is_rotating
    /\ Len(current_waypoint) = 3
    /\ IsNumber(current_waypoint[1]) /\ IsNumber(current_waypoint[2])
    /\ current_waypoint[3] \in {S("forward"), S("backward")}

\* C14: at a movement step, an iteration that reads a position less than
\* 0.1 (100 mm) from the target stops the wheels and advances the cursor by
\* one; an iteration that reads a position not that near leaves the cursor
\* and issues the drive of the step's direction at SPEED; the cursor never
\* goes back within a plan, so a step left is not entered again.
C14_MoveStopsWithinTolerance ==
    [][ /\ AtMoveStep =>
             LET dx == gps'[1] - current_waypoint[1].n
                 dy == gps'[2] - current_waypoint[2].n
                 drive == IF current_waypoint[3] = S("forward")
                          THEN <<SPEED, SPEED, SPEED, SPEED>>
                          ELSE <<-SPEED, -SPEED, -SPEED, -SPEED>>
             IN  /\ gps' # None
                 /\ pc' = "loop"
                 /\ IF dx * dx + dy * dy < TOLERANCE * TOLERANCE
                    THEN /\ current_waypoint_index' = current_waypoint_index + 1
                         /\ wheels' = <<0, 0, 0, 0>>
                         /\ cmds' = SetWheels(<<0, 0, 0, 0>>)
                    ELSE /\ current_waypoint_index' = current_waypoint_index
                         /\ wheels' = drive
                         /\ cmds' = SetWheels(drive)
        /\ (current_waypoint_index' < current_waypoint_index =>
               waypoints' = <<>> /\ current_waypoint_index' = 0) ]_vars

\* C14 witness: the first movement step has ended on a reading 99 mm from
\* its target.
C14_Witness ==
    /\ pc = "loop"
    /\ branch = "move"
    /\ gps = <<1680, -2961>>
    /\ current_waypoint_index = 1
    /\ wheels = <<0, 0, 0, 0>>

\* the wheel velocities of a turn command
TurnWheels(turn_command) ==
    IF turn_command = "turn_left"
    THEN <<-ROTATING_SPEED, ROTATING_SPEED, ROTATING_SPEED, -ROTATING_SPEED>>
    ELSE <<ROTATING_SPEED, -ROTATING_SPEED, -ROTATING_SPEED, ROTATING_SPEED>>

\* the current step is a turn_left or turn_right step with a duration
AtTimedTurn ==
    /\ pc = "body"
    /\ InPlan
    /\ Len(current_waypoint) = 2
    /\ current_waypoint[1] \in {S("turn_left"), S("turn_right")}
    /\ IsNumber(current_waypoint[2])

\* C15: a turn_left / turn_right step starts by issuing its direction's
\* wheel command and recording the start time; every later iteration of
\* the step either re-issues that same command, or, only when the
\* simulated time since the start is at least the step's duration, stops,
\* advances the cursor by one and clears the rotation state (not rotating,
\* start time None); nothing else runs while the turn lasts.
C15_TimedTurnHoldsDirection ==
    [][ /\ (AtTimedTurn /\ ~is_rotating =>
               /\ is_rotating'
               /\ rotation_start_time' = <<simTime>>
               /\ current_rotation_duration' = current_waypoint[2]
               /\ wheels' = TurnWheels(current_waypoint[1].s)
               /\ cmds' = SetWheels(TurnWheels(current_waypoint[1].s))
               /\ current_waypoint_index' = current_waypoint_index
               /\ pc' = "loop")
        /\ (pc = "body" /\ is_rotating =>
               /\ AtTimedTurn
               /\ pc' = "loop"
               /\ IF is_rotating'
                  THEN /\ wheels' = TurnWheels(current_waypoint[1].s)
                       /\ cmds' = SetWheels(TurnWheels(current_waypoint[1].s))
                       /\ current_waypoint_index' = current_waypoint_index
                       /\ rotation_start_time' = rotation_start_time
                       /\ simTime - rotation_start_time[1] < current_waypoint[2].n
                  ELSE /\ simTime - rotation_start_time[1] >= current_waypoint[2].n
                       /\ wheels' = <<0, 0, 0, 0>>
                       /\ cmds' = SetWheels(<<0, 0, 0, 0>>)
                       /\ current_waypoint_index' = current_waypoint_index + 1
                       /\ rotation_start_time' = None)
        /\ (is_rotating => pc \in {"loop", "body"})
        /\ (pc # "body" => is_rotating' = is_rotating) ]_vars

\* C15 witness: the turn_right step of 11 s has completed, at an elapsed
\* time of at least 11 s, with the rotation state cleared.
C15_Witness ==
    /\ pc = "loop"
    /\ branch = "rotating"
    /\ current_waypoint_index = 2
    /\ waypoints[2] = <<S("turn_right"), F(11000)>>
    /\ simTime >= 11000
    /\ ~is_rotating
    /\ rotation_start_time = None
    /\ wheels = <<0, 0, 0, 0>>

\* a rotation step (x, y, z, angle, 'rotation') is next
AtRotationStep ==
    /\ pc = "body"
    /\ InPlan
    /\ ~is_rotating
    /\ Len(current_waypoint) = 5
    /\ current_waypoint[5] = S("rotation")
    /\ IsNumber(current_waypoint[4])

\* C16: a rotation step takes one iteration: the wheels are stopped, the
\* orientation is set at most once (not at all when set_robot_rotation
\* returns False), the cursor advances by one in both cases, and the
\* rotating state is not entered.
C16_RotationIsOneShot ==
    [][ AtRotationStep =>
          /\ pc' = "loop"
          /\ current_waypoint_index' = current_waypoint_index + 1
          /\ wheels' = <<0, 0, 0, 0>>
          /\ \/ cmds' = SetWheels(<<0, 0, 0, 0>>)
             \/ cmds' = SetWheels(<<0, 0, 0, 0>>)
                        \o <<Cmd("rotation", current_waypoint[4].n)>>
          /\ ~is_rotating'
          /\ rotation_start_time' = None ]_vars

\* C16 witness: the rotation step has run with the orientation not set
\* (set_robot_rotation returned False) and the cursor is past it.
C16_Witness ==
    /\ pc = "loop"
    /\ branch = "rotation"
    /\ cmds = SetWheels(<<0, 0, 0, 0>>)
    /\ current_waypoint_index = 7
    /\ waypoints[7][5] = S("rotation")
    /\ ~is_rotating

\* the positions in cmds of the commands to an arm joint or to a finger
JointCommands ==
    {i \in 1..Len(cmds) :
       cmds[i].dev \in {"arm1", "arm2", "arm3", "arm4", "arm5",
                        "finger_left", "finger_right"}}

\* the slots the pick iterations of this step have handled so far
SlotsHandled == {available_slots[k] : k \in 1..pick_i}

\* C18: while the pick iterations of a step have handled only slots with
\* no choreography (any id other than 2 and 4), no position command has
\* gone to an arm joint or to a finger, and the step is not stuck: it
\* returns to the loop with the cursor past the pick_can step.
C18_NoJointCommandsWithoutChoreography ==
    ( /\ branch = "pick"
      /\ pick_i >= 1
      /\ SlotsHandled \cap {2, 4} = {} ) =>
        /\ JointCommands = {}
        /\ pc \in {"pick", "loop"}
        /\ (pc = "loop" => waypoints[current_waypoint_index][1] = S("pick_can"))

\* C19: the update-slot-availability request is made only for a slot whose
\* choreography ran (slots 2 and 4), and a slot without choreography that
\* was available before its iteration is still available in the cache
\* after it.
C19_OnlyPickedSlotsAreConsumed ==
    /\ \A i \in 1..Len(calls) :
          calls[i].ep = "update-slot-availability" => calls[i].val \in {2, 4}
    /\ (last_mark.slot \notin {0, 2, 4} /\ last_mark.before =>
          SlotAvailable(last_mark.slot))

\* a step is next that is none of: pick_can, rotation, a forward or
\* backward movement, a turn_left or turn_right
AtUnrecognisedStep ==
    /\ pc = "body"
    /\ InPlan
    /\ ~is_rotating
    /\ ~(Len(current_waypoint) >= 2 /\ current_waypoint[1] = S("pick_can"))
    /\ ~(Len(current_waypoint) = 5 /\ current_waypoint[5] = S("rotation"))
    /\ ~(Len(current_waypoint) = 3
           /\ current_waypoint[3] \in {S("forward"), S("backward")})
    /\ ~(Len(current_waypoint) = 2
           /\ current_waypoint[1] \in {S("turn_left"), S("turn_right")})

\* C17: a step of an unrecognised shape is left in the iteration that meets
\* it: the wheels are stopped, the cursor advances by one, no turn is
\* started and the loop goes on.
C17_UnrecognisedStepIsSkipped ==
    [][ AtUnrecognisedStep =>
          /\ pc' = "loop"
          /\ current_waypoint_index' = current_waypoint_index + 1
          /\ wheels' = <<0, 0, 0, 0>>
          /\ ~is_rotating' ]_vars

\* the ids of the slots the cache holds as available
AvailableIds ==
    {shelves["can_shelf"][j].id :
       j \in {k \in 1..Len(shelves["can_shelf"]) : shelves["can_shelf"][k].available}}

\* C20: the list pick_can_quantity gets from get_available_slots holds
\* exactly the ids of the cache's available slots, in ascending order, so
\* the first iteration takes the lowest available id.
C20_AvailableSlotsAscending ==
    (pc = "pick" /\ pick_i = 0) =>
        /\ {available_slots[i] : i \in 1..Len(available_slots)} = AvailableIds
        /\ \A i, j \in 1..Len(available_slots) :
              i < j => available_slots[i] < available_slots[j]

\* the slot ids of the update-slot-availability requests of this iteration
SlotsPatched ==
    LET RECURSIVE Vals(_)
        Vals(cs) == IF cs = <<>> THEN <<>>
                    ELSE (IF Head(cs).ep = "update-slot-availability"
                          THEN <<Head(cs).val>> ELSE <<>>) \o Vals(Tail(cs))
    IN  Vals(calls)

\* C21: with slots 2 and 4 available, every request succeeding and a job
\* of two cans: the pick step runs the choreography of slot 2 and then of
\* slot 4 and patches both; from then on both are unavailable in the
\* cache; when the in-progress flag is cleared the job has been reported
\* once (its id is reset) and the battery is 5 below its level at the
\* start, and it was not decremented before the reports.
C21_ScenarioA ==
    jobs_started = 1 =>
        /\ (branch = "pick" /\ pc = "loop" =>
              /\ cmds = pick_can_from_slot(2) \o pick_can_from_slot(4)
              /\ SlotsPatched = <<2, 4>>)
        /\ ((JOB_IN_PROGRESS /\ current_waypoint_index >= 4) \/ ~JOB_IN_PROGRESS =>
              ~SlotAvailable(2) /\ ~SlotAvailable(4))
        /\ (~JOB_IN_PROGRESS =>
              /\ jobs_reported = 1
              /\ CURRENT_JOB_ID = NO_JOB
              /\ BATTERY = 100 - 5)
        /\ (JOB_IN_PROGRESS /\ pc # "reset" => BATTERY = 100 /\ jobs_reported <= 1)
        /\ pc # "crashed"

\* C21 witness: the first job has run to its end and the flag is cleared.
C21_Witness ==
    /\ pc = "loop"
    /\ branch = "complete"
    /\ jobs_started = 1
    /\ ~JOB_IN_PROGRESS
    /\ BATTERY = 95
    /\ ~SlotAvailable(2) /\ ~SlotAvailable(4)

\* C22: under LiveSpec a job in progress leads to its completion: the
\* cursor reaches the plan's length, the completion is reported and the
\* in-progress flag is cleared.
C22_JobRunsToCompletion ==
    JOB_IN_PROGRESS ~> (~JOB_IN_PROGRESS /\ jobs_reported = jobs_started)

\* C23: the in-progress flag goes from true to false only in the terminal
\* branch (plan not empty, cursor at or past its length), at its last
\* statement; right after it the plan is empty, the cursor 0 and the
\* wheels stopped.
C23_FlagClearedOnlyAtCompletion ==
    [][ (JOB_IN_PROGRESS /\ ~JOB_IN_PROGRESS') =>
          /\ pc = "reset"
          /\ branch = "complete"
          /\ Len(waypoints) > 0
          /\ current_waypoint_index >= Len(waypoints)
          /\ pc' = "loop"
          /\ waypoints' = <<>>
          /\ current_waypoint_index' = 0
          /\ wheels' = <<0, 0, 0, 0>> ]_vars

\* C23 witness: the terminal branch has just cleared the flag of the first
\* job.
C23_Witness ==
    /\ pc = "loop"
    /\ branch = "complete"
    /\ jobs_reported = 1
    /\ ~JOB_IN_PROGRESS
    /\ waypoints = <<>>
    /\ current_waypoint_index = 0
    /\ wheels = <<0, 0, 0, 0>>

\* C24: at the top of the loop the flag is true exactly when the plan is
\* not empty, and with the flag false the plan is empty, the cursor 0 and
\* no turn is running; a waypoint is processed only with the flag true.
C24_FlagMatchesPlan ==
    /\ (pc = "loop" => (JOB_IN_PROGRESS <=> waypoints # <<>>))
    /\ (pc = "loop" /\ ~JOB_IN_PROGRESS =>
          /\ waypoints = <<>>
          /\ current_waypoint_index = 0
          /\ ~is_rotating
          /\ rotation_start_time = None)
    /\ ((pc = "body" /\ InPlan) \/ pc = "pick" => JOB_IN_PROGRESS)
    /\ (branch \in {"move", "turn", "rotating", "rotation", "pick", "invalid"} =>
          JOB_IN_PROGRESS)

\* C24 witness: the top of the loop after an idle iteration that followed
\* a completed job.
C24_Witness ==
    /\ pc = "loop"
    /\ branch = "idle"
    /\ jobs_reported = 1
    /\ jobs_started = 1
    /\ ~JOB_IN_PROGRESS

\* the command lists a turn may issue
TurnCommands ==
    {SetWheels(<<-ROTATING_SPEED, ROTATING_SPEED, ROTATING_SPEED, -ROTATING_SPEED>>),
     SetWheels(<<ROTATING_SPEED, -ROTATING_SPEED, -ROTATING_SPEED, ROTATING_SPEED>>)}

\* C25: while a turn is running the step at the cursor is a turn_left or
\* turn_right step inside the plan; an iteration of the turn makes no poll
\* and no request, touches neither the plan, the cache nor the flag, and
\* issues either one turn command, the cursor staying, or, ending the
\* turn, the stop.
C25_TurnOwnsTheDrive ==
    [][ /\ (is_rotating =>
               /\ pc \in {"loop", "body"}
               /\ InPlan
               /\ Len(current_waypoint) = 2
               /\ current_waypoint[1] \in {S("turn_left"), S("turn_right")})
        /\ (is_rotating /\ pc = "loop" =>
               /\ pc' = "body"
               /\ is_rotating'
               /\ wheels' = wheels
               /\ current_waypoint_index' = current_waypoint_index)
        /\ (is_rotating /\ pc = "body" =>
               /\ branch' = "rotating"
               /\ calls' = <<>>
               /\ response_json' = NoResponse /\ gps' = None
               /\ waypoints' = waypoints
               /\ shelves' = shelves
               /\ JOB_IN_PROGRESS' = JOB_IN_PROGRESS
               /\ IF is_rotating'
                  THEN /\ cmds' \in TurnCommands
                       /\ current_waypoint_index' = current_waypoint_index
                  ELSE cmds' = SetWheels(<<0, 0, 0, 0>>)) ]_vars

\* C25 witness: an iteration in the middle of the turn_left step has
\* re-issued the turn command.
C25_Witness ==
    /\ pc = "loop"
    /\ branch = "rotating"
    /\ is_rotating
    /\ current_waypoint_index = 5
    /\ cmds \in TurnCommands
    /\ simTime > 0

\* the whole command list of a slot: reset, lowering, grip and place
FullChoreography(slot_id) ==
    ResetJoints
    \o (IF slot_id = 2
        THEN LowerForSlot2 \o GripAndPlace(-2940, -520, <<-840>>, 20, 2000)
        ELSE IF slot_id = 4
        THEN LowerForSlot4 \o GripAndPlace(-2940, -320, None, 20, 2000)
        ELSE <<>>)

\* the positions in a command list of the wheel commands other than zero
DriveCommands(cs) ==
    {i \in 1..Len(cs) :
       cs[i].dev \in {"wheel1", "wheel2", "wheel3", "wheel4"} /\ cs[i].pos # 0}

\* C26: from the dispatch of a pick_can step until pick_can_quantity
\* returns there is no poll, no other branch of the loop, no change of the
\* plan or of the flag and no wheel command other than zero; each
\* iteration issues the whole choreography of its slot in order while the
\* simulated time advances; the cursor moves, by exactly one, only in the
\* step that returns to the loop.
C26_PickStepIsAtomic ==
    [][ (AtPickStep \/ pc = "pick") =>
          /\ pc' \in {"pick", "loop", "crashed"}
          /\ branch' = "pick"
          /\ response_json' = NoResponse
          /\ since_last_call' = since_last_call
          /\ waypoints' = waypoints
          /\ JOB_IN_PROGRESS' = JOB_IN_PROGRESS
          /\ is_rotating' = is_rotating
          /\ gps' = None
          /\ DriveCommands(cmds') = {}
          /\ wheels' = <<0, 0, 0, 0>>
          /\ (cmds' # cmds =>
                /\ pc = "pick"
                /\ cmds' = cmds \o FullChoreography(available_slots[pick_i + 1])
                /\ simTime' > simTime)
          /\ IF pc' = "loop"
             THEN current_waypoint_index' = current_waypoint_index + 1
             ELSE current_waypoint_index' = current_waypoint_index ]_vars

\* C26 witness: a pick_can step that ran the choreographies of two slots
\* has returned to the loop, the cursor one past it.
C26_Witness ==
    /\ pc = "loop"
    /\ branch = "pick"
    /\ pick_i = 2
    /\ current_waypoint_index = 4
    /\ cmds = FullChoreography(available_slots[1]) \o FullChoreography(available_slots[2])
    /\ simTime > 0

\* C27: between two position commands to the same joint there is a wait,
\* and every wait steps the simulation at least once.
C27_EveryPhaseIsHeld ==
    /\ \A i, j \in JointCommands :
          (i < j /\ cmds[i].dev = cmds[j].dev) =>
             \E k \in (i + 1)..(j - 1) : cmds[k].dev = "wait"
    /\ \A i \in 1..Len(cmds) :
          cmds[i].dev = "wait" => WaitSteps(cmds[i].pos) >= 1

\* C28: while a job is in progress the plan does not change; the cursor is
\* within 0..length; it changes only by +1, in the step that ends a loop
\* iteration (so at most once per iteration), or to 0 in the reset of the
\* terminal branch.
C28_PlanIsConsumedInOrder ==
    [][ /\ (JOB_IN_PROGRESS /\ JOB_IN_PROGRESS' => waypoints' = waypoints)
        /\ current_waypoint_index \in 0..Len(waypoints)
        /\ current_waypoint_index' \in 0..Len(waypoints')
        /\ (current_waypoint_index' # current_waypoint_index =>
               \/ /\ current_waypoint_index' = current_waypoint_index + 1
                  /\ JOB_IN_PROGRESS
                  /\ pc \in {"body", "pick"}
                  /\ pc' = "loop"
               \/ /\ current_waypoint_index' = 0
                  /\ pc = "reset") ]_vars

\* C28 witness: the last step of the plan has been consumed: the cursor is
\* at the plan's length, the job still in progress.
C28_Witness ==
    /\ pc = "loop"
    /\ JOB_IN_PROGRESS
    /\ Len(waypoints) = 9
    /\ current_waypoint_index = Len(waypoints)
    /\ branch = "move"

\* C29: no step of the loop adds or reorders slots of the cache or turns an
\* unavailable slot available, and a slot handed to a pick iteration was
\* available in the cache at that moment.
C29_CacheOnlyLosesSlots ==
    [][ /\ DOMAIN shelves' = DOMAIN shelves
        /\ ("can_shelf" \in DOMAIN shelves =>
               /\ Len(shelves'["can_shelf"]) = Len(shelves["can_shelf"])
               /\ \A j \in 1..Len(shelves["can_shelf"]) :
                     /\ shelves'["can_shelf"][j].id = shelves["can_shelf"][j].id
                     /\ (shelves'["can_shelf"][j].available =>
                           shelves["can_shelf"][j].available))
        /\ (last_mark'.slot # 0 => last_mark'.before) ]_vars

\* C29 witness: in the second job of a run, a slot has been picked and
\* marked while a slot taken earlier stays unavailable.
C29_Witness ==
    /\ jobs_started = 2
    /\ last_mark.result = "True"
    /\ last_mark.slot = 4
    /\ ~SlotAvailable(4)
    /\ ~SlotAvailable(2)

\* C30: in every step that moves the cursor, and in the terminal branch,
\* the wheels end at zero; a step other than a movement is met with the
\* wheels at zero.
C30_StepsStartAtRest ==
    [][ /\ (current_waypoint_index' # current_waypoint_index =>
               wheels' = <<0, 0, 0, 0>>)
        /\ (branch' = "complete" => wheels' = <<0, 0, 0, 0>>)
        /\ ((pc = "body" /\ InPlan /\ ~is_rotating /\ Len(current_waypoint) # 3) =>
               wheels = <<0, 0, 0, 0>>) ]_vars

\* C30 witness: a tuple of four elements, met after a movement step, has
\* been skipped by the fallback with the wheels at zero.
C30_Witness ==
    /\ pc = "loop"
    /\ branch = "invalid"
    /\ current_waypoint_index = 4
    /\ Len(waypoints[4]) = 4
    /\ wheels = <<0, 0, 0, 0>>

\* the commands of n CAN routines in a row
RECURSIVE CanRoutines(_)
CanRoutines(n) ==
    IF n <= 0 THEN <<>> ELSE pick_and_place("CAN") \o CanRoutines(n - 1)

\* the pick_can step the cursor has just moved past
ObjStepDone == waypoints[current_waypoint_index]

\* C31: in the per-object controller, a pick_can step of a positive integer
\* quantity q ends with exactly the commands of one BISCUIT routine followed
\* by q - 1 CAN routines, whatever q is; a step of another quantity ends
\* with no command at all; and the loop exits in the iteration that finds
\* the cursor at the plan's length, and in no other.
C31_PerObjectPickCan ==
    [][ /\ (pc' = "loop" /\ branch' = "pick_can" /\ Len(ObjStepDone') >= 2 =>
              LET q == ObjStepDone'[2]
              IN  cmds' = IF q.t = "int" /\ q.n > 0
                          THEN pick_and_place("BISCUIT") \o CanRoutines(q.n - 1)
                          ELSE <<>>)
        /\ (pc' = "done" <=>
              pc = "body" /\ current_waypoint_index >= Len(waypoints)) ]_vars

\* C31 witness: the pick_can step of three cans has ended: one BISCUIT
\* routine and two CAN routines were commanded.
C31_Witness ==
    /\ pc = "loop"
    /\ branch = "pick_can"
    /\ ObjStepDone = <<S("pick_can"), I(3)>>
    /\ pick_i = 3
    /\ cmds = pick_and_place("BISCUIT") \o pick_and_place("CAN") \o pick_and_place("CAN")

\* the functions of utils.algorithm the cycle has invoked, in order
FunctionsInvoked == SelectSeq(invoked, LAMBDA f : f \in {"job_dispatcher", "assign_jobs"})

\* both fetches of the cycle answered with the success flag set
BothFetchesSucceeded ==
    /\ robots_response # None /\ robots_response.kind = "ok"
    /\ orders_response # None /\ orders_response.kind = "ok"

\* C32: in every cycle of the assignment service, job_dispatcher is invoked
\* only after both fetches succeeded with at least one pending order,
\* assign_jobs only after both succeeded with at least one available robot,
\* each at most once and job_dispatcher first; a cycle with a fetch that
\* timed out, failed or was unsuccessful invokes neither; every cycle
\* returns to the service loop, and the next one starts only when the
\* check interval has passed again.
C32_DispatchOnlyAfterBothFetches ==
    [][ /\ FunctionsInvoked' \in {<<>>, <<"job_dispatcher">>, <<"assign_jobs">>,
                                 <<"job_dispatcher", "assign_jobs">>}
        /\ (FunctionsInvoked' # <<>> => BothFetchesSucceeded')
        /\ ("job_dispatcher" \in {FunctionsInvoked'[i] : i \in 1..Len(FunctionsInvoked')} =>
              Len(orders_response'.data) > 0)
        /\ ("assign_jobs" \in {FunctionsInvoked'[i] : i \in 1..Len(FunctionsInvoked')} =>
              Len(robots_response'.data) > 0)
        /\ (pc = "svc_end" => pc' = "svc_loop" /\ since_last_check' > 0)
        /\ pc' \in {"svc_loop", "svc_robots", "svc_orders", "svc_parse",
                    "svc_dispatch", "svc_assign", "svc_end"}
        /\ (pc' = "svc_robots" => since_last_check >= 2 * CHECK_INTERVAL) ]_vars

\* C32 witness: a cycle has ended in which both fetches succeeded, with one
\* order and two robots: job_dispatcher and then assign_jobs were invoked.
C32_Witness ==
    /\ pc = "svc_end"
    /\ BothFetchesSucceeded
    /\ Len(orders_response.data) = 1
    /\ Len(robots_response.data) = 2
    /\ invoked = <<"get-available-robots", "get-pending-orders",
                   "job_dispatcher", "assign_jobs">>
    /\ orders = <<>>
    /\ available_robots = <<>>

====
